---------------------------- MODULE Spec2Model ----------------------------
(***************************************************************************)
(* Model of the block-chain ledger engine: the chain store of              *)
(* src/src/chain/mod.rs over the block model of src/src/block/mod.rs and   *)
(* the two consensus plug-ins of src/src/block/pow.rs and                  *)
(* src/src/block/pos.rs.                                                   *)
(*                                                                         *)
(* Byte strings (Vec<u8>, [u8; 32]) are sequences of words.  A word is a   *)
(* record [tag, w, n]: a run of one byte, a fixed-width integer, a key,    *)
(* a signature or a 32-byte digest.  A digest keeps the bytes it was       *)
(* computed from (w), so that two digests are equal exactly when their     *)
(* inputs are equal byte strings: SHA-256 is taken to be collision free.   *)
(* The 32 bytes a digest reads as are not computed: a step that compares   *)
(* a digest with a target reads them from an oracle (see DigestBytes).     *)
(***************************************************************************)
EXTENDS Integers, Sequences, FiniteSets, TLC

(***************************************************************************)
(* Bounds of the model.                                                    *)
(***************************************************************************)
MaxHeight == 2      \* blocks appended after genesis
MaxNonce  == 1      \* nonces a submitted PoW block may carry: 0..MaxNonce
MaxTicks  == 2      \* seconds the clock may advance past the genesis timestamp
MaxRounds == 3      \* generate_block / add_block rounds run on one store
MaxTargetLen == 4   \* bytes of the targets handed to the compact codec
MaxStake  == 2      \* stakes registered for select_validator: 0..MaxStake
MaxRefreshes == 2   \* timestamp refreshes followed in one nonce search
MaxFieldLen == 2    \* bytes in a hand-built prev_hash or merkle_root
MaxHashed == 2      \* digests and challenges whose value is read on one store

(***************************************************************************)
(* Program constants.                                                      *)
(***************************************************************************)
TARGET_TIME_SPAN           == 120
DIFFICULTY_ADJUST_INTERVAL == 10
DEFAULT_DIFFICULTY         == 520159231      \* 0x1f00_ffff
COEFF_MASK                 == 8388607        \* 0x007f_ffff
GENESIS_TIMESTAMP          == 1685000000
MIN_STAKE_AMOUNT           == 1000
RETRY_INTERVAL             == 1000000        \* attempts between timestamp refreshes

(***************************************************************************)
(* Words and byte strings.                                                 *)
(***************************************************************************)
Bytes(b, k) == [tag |-> "u8", w |-> <<>>, n |-> <<b, k>>]    \* byte b, k times
U32LE(x) == [tag |-> "u32", w |-> <<>>, n |-> <<x>>]
U64LE(x) == [tag |-> "u64", w |-> <<>>, n |-> <<x>>]
I64LE(x) == [tag |-> "i64", w |-> <<>>, n |-> <<x>>]

\* "0".repeat(64).as_bytes().to_vec(): 64 ASCII '0' bytes (48)
Zero64 == <<Bytes(48, 64)>>

\* Sha256 of a byte string, and the double hash of the header
Sha256(bytes)  == [tag |-> "sha256",  w |-> bytes, n |-> <<>>]
Sha256d(bytes) == [tag |-> "sha256d", w |-> bytes, n |-> <<>>]

(***************************************************************************)
(* ed25519.  Secret key k (in Keys) has verifying key k; key 0 is the      *)
(* all-zero verifying key of the PoS genesis payload.  A signature names   *)
(* the secret key that made it and the message it was made over.           *)
(***************************************************************************)
Keys == {1, 2, 3}
VerifyingKeyOf(sk) == sk
VKey(pk)      == [tag |-> "vkey", w |-> <<>>, n |-> <<pk>>]
Sign(sk, msg) == [tag |-> "sig",  w |-> <<msg>>, n |-> <<sk>>]
ZeroSignature == [tag |-> "sig",  w |-> <<>>, n |-> <<0>>]

\* the challenge of a verification: SHA-512 of R || A || M, as a scalar
Challenge(pk, msg, sig) == [tag |-> "challenge", w |-> <<sig, VKey(pk), msg>>, n |-> <<>>]

\* VerifyingKey::verify.  The all-zero key is a point A of order 4 and the
\* all-zero signature has R = A and s = 0: the check [s]B - [k]A = R holds
\* when the challenge k is 3 modulo 4 (o gives k modulo 4).  No other
\* signature verifies under the all-zero key, and under the key of a
\* secret key only the signatures that key made over the message do.
Verify(o, pk, msg, sig) ==
    IF pk = 0
    THEN /\ sig = ZeroSignature
         /\ (o[Challenge(pk, msg, sig)] + 1) % 4 = 0
    ELSE /\ sig.w = <<msg>>
         /\ sig.n[1] \in Keys
         /\ VerifyingKeyOf(sig.n[1]) = pk


(***************************************************************************)
(* Transactions.  A transaction is a small number standing for its body;   *)
(* 0 is the default transaction (TD::default()).  Its hash is 32 bytes.    *)
(***************************************************************************)
Transaction_hash(tx) == [tag |-> "txhash", w |-> <<>>, n |-> <<tx>>]

\* One level of the Merkle tree: hash the nodes in pairs; a last node
\* without a sibling is carried up.
RECURSIVE MerkleLevel(_)
MerkleLevel(nodes) ==
    IF Len(nodes) = 0 THEN <<>>
    ELSE IF Len(nodes) = 1 THEN nodes
    ELSE <<Sha256(<<nodes[1], nodes[2]>>)>>
         \o MerkleLevel(SubSeq(nodes, 3, Len(nodes)))

RECURSIVE MerkleTreeRoot(_)
MerkleTreeRoot(nodes) ==
    IF Len(nodes) = 1 THEN nodes[1] ELSE MerkleTreeRoot(MerkleLevel(nodes))

\* Transactions::merkle_root giving the all-zero root for no transactions
Transactions_merkle_root_EmptyIsZero(txs) ==
    LET leaves == [i \in 1..Len(txs) |-> Transaction_hash(txs[i])]
    IN  IF Len(txs) = 0
        THEN [some |-> TRUE, v |-> Zero64]
        ELSE [some |-> TRUE, v |-> <<MerkleTreeRoot(leaves)>>]

\* Transactions::merkle_root: None for an empty sequence, else Some(root)
Transactions_merkle_root(txs) ==
    LET leaves == [i \in 1..Len(txs) |-> Transaction_hash(txs[i])]
    IN  IF Len(txs) = 0
        THEN [some |-> FALSE, v |-> <<>>]
        ELSE [some |-> TRUE,  v |-> <<MerkleTreeRoot(leaves)>>]

\* Transactions::test_new: vec![H::default()]
Transactions_test_new == <<0>>

(***************************************************************************)
(* Headers.  data is the proof payload: [bits, nonce] under PoW and        *)
(* [validator_key, signature] under PoS.                                   *)
(***************************************************************************)
\* bincode::serialize(&self.data)
SerializeData(data) ==
    IF "bits" \in DOMAIN data
    THEN <<U32LE(data.bits), U64LE(data.nonce)>>
    ELSE <<VKey(data.validator_key), data.signature>>

\* the bytes fed to the hasher: prev_hash || merkle_root || timestamp || data
HeaderBytes(h) ==
    h.prev_hash \o h.merkle_root \o <<I64LE(h.timestamp)>> \o SerializeData(h.data)

\* BlockHeader::hash: the 32-byte double SHA-256 of the header bytes
BlockHeader_hash(h) == Sha256d(HeaderBytes(h))

(***************************************************************************)
(* What SHA-2 gives.  The bytes of a digest, and the scalar of a           *)
(* challenge modulo 4, are read from an oracle: a function from the        *)
(* digests and challenges read so far to their values.  A step that reads  *)
(* a new one extends the oracle by any of the values it can have; what     *)
(* has been read stays.  The digests are ones the program computes: those  *)
(* of the PoW genesis header under four nonces, which the oracle gives     *)
(* for these headers and offers for every other.                           *)
(***************************************************************************)
\* the PoW genesis header with a nonce
GenesisHeaderAt(nonce) ==
    [prev_hash   |-> Zero64,
     merkle_root |-> Zero64,
     timestamp   |-> GENESIS_TIMESTAMP,
     data        |-> [bits |-> DEFAULT_DIFFICULTY, nonce |-> nonce]]

\* BlockHeader::hash of the PoW genesis header with nonce 0 (c723d87d...),
\* 1 (ffc3b31b...), 19778 (ffff6bed..., above the target of 0x2100_ffff)
\* and 36554 (0000a2ef..., the first at most the target of 0x1f00_ffff)
GenesisDigests ==
    [n \in {0, 1, 19778, 36554} |->
        CASE n = 0 ->
               <<199, 35, 216, 125, 71, 33, 227, 68, 38, 12, 143, 150, 103, 201, 249, 111,
                 107, 231, 167, 19, 47, 238, 83, 3, 28, 130, 43, 254, 214, 192, 58, 29>>
          [] n = 1 ->
               <<255, 195, 179, 27, 246, 221, 108, 195, 69, 161, 132, 70, 110, 28, 14, 45,
                 39, 42, 33, 131, 150, 91, 105, 222, 159, 55, 80, 247, 207, 183, 130, 118>>
          [] n = 19778 ->
               <<255, 255, 107, 237, 221, 78, 90, 6, 212, 156, 119, 39, 114, 51, 218, 161,
                 200, 14, 108, 229, 12, 119, 147, 212, 47, 107, 60, 138, 231, 87, 87, 69>>
          [] n = 36554 ->
               <<0, 0, 162, 239, 183, 211, 98, 88, 129, 139, 149, 120, 70, 66, 215, 81,
                 73, 110, 225, 113, 106, 229, 52, 239, 222, 95, 176, 38, 245, 108, 11, 215>>]

\* the 32-byte values offered for a digest
DigestValues == {GenesisDigests[n] : n \in DOMAIN GenesisDigests}

\* the PoS genesis header, whose challenge under the all-zero key and
\* signature is 3 modulo 4
PoSGenesisHeader ==
    [prev_hash   |-> Zero64,
     merkle_root |-> Zero64,
     timestamp   |-> GENESIS_TIMESTAMP,
     data        |-> [validator_key |-> 0, signature |-> ZeroSignature]]

\* the values x can have: of a challenge the scalar modulo 4, of a digest
\* its 32 bytes
OracleValues(x) ==
    IF x.tag = "challenge"
    THEN IF x = Challenge(0, BlockHeader_hash(PoSGenesisHeader), ZeroSignature)
         THEN {3} ELSE 0..3
    ELSE IF \E n \in DOMAIN GenesisDigests : x = BlockHeader_hash(GenesisHeaderAt(n))
    THEN {GenesisDigests[n] : n \in {m \in DOMAIN GenesisDigests :
                                        x = BlockHeader_hash(GenesisHeaderAt(m))}}
    ELSE DigestValues

\* the oracles that extend o by values for the members of xs
RECURSIVE Extensions(_, _)
Extensions(o, xs) ==
    IF xs \subseteq DOMAIN o THEN {o}
    ELSE LET x == CHOOSE y \in xs : y \notin DOMAIN o
         IN  UNION {Extensions([y \in DOMAIN o \cup {x} |-> IF y = x THEN v ELSE o[y]], xs) :
                       v \in OracleValues(x)}

\* Sha256::finalize: the 32 bytes of the digest d
DigestBytes(o, d) == o[d]

(***************************************************************************)
(* BigUint: a sequence of base-256 digits, most significant first, with    *)
(* no leading zero (zero is the empty sequence).                           *)
(***************************************************************************)
RECURSIVE BigNorm(_)
BigNorm(bytes) ==
    IF Len(bytes) = 0 THEN <<>>
    ELSE IF Head(bytes) = 0 THEN BigNorm(Tail(bytes))
    ELSE bytes

\* BigUint::from_bytes_be
BigFromBytesBE(bytes) == BigNorm(bytes)

RECURSIVE BigLexLeq(_, _)
BigLexLeq(a, b) ==
    IF Len(a) = 0 THEN TRUE
    ELSE IF Head(a) < Head(b) THEN TRUE
    ELSE IF Head(a) > Head(b) THEN FALSE
    ELSE BigLexLeq(Tail(a), Tail(b))

\* a <= b on BigUint
BigLeq(a, b) ==
    \/ Len(a) < Len(b)
    \/ Len(a) = Len(b) /\ BigLexLeq(a, b)

\* BigUint::from(x) for a u32
BigFromU32(x) ==
    BigNorm(<<(x \div 16777216) % 256, (x \div 65536) % 256, (x \div 256) % 256, x % 256>>)

\* a << (8 * k)
BigShlBytes(a, k) == IF Len(a) = 0 THEN <<>> ELSE a \o [i \in 1..k |-> 0]

\* a >> 8
BigShr8(a) == IF Len(a) <= 1 THEN <<>> ELSE SubSeq(a, 1, Len(a) - 1)

\* the digits of a natural number below 2^31
RECURSIVE NatDigits(_)
NatDigits(x) == IF x = 0 THEN <<>> ELSE NatDigits(x \div 256) \o <<x % 256>>

\* a * m for a small m
RECURSIVE MulDigits(_, _, _)
MulDigits(a, m, carry) ==
    IF Len(a) = 0 THEN NatDigits(carry)
    ELSE LET x == (a[Len(a)] * m) + carry
         IN  MulDigits(SubSeq(a, 1, Len(a) - 1), m, x \div 256) \o <<x % 256>>
BigMulSmall(a, m) == BigNorm(MulDigits(a, m, 0))

\* a / d for a small d > 0
RECURSIVE DivDigits(_, _, _)
DivDigits(a, d, rem) ==
    IF Len(a) = 0 THEN <<>>
    ELSE LET x == (rem * 256) + Head(a)
         IN  <<x \div d>> \o DivDigits(Tail(a), d, x % d)
BigDivSmall(a, d) == BigNorm(DivDigits(a, d, 0))

\* Ord::clamp
BigClamp(x, lo, hi) ==
    IF ~BigLeq(lo, x) THEN lo ELSE IF ~BigLeq(x, hi) THEN hi ELSE x

\* the value of a BigUint below 2^31
RECURSIVE BigToNat(_)
BigToNat(a) ==
    IF Len(a) = 0 THEN 0 ELSE (BigToNat(SubSeq(a, 1, Len(a) - 1)) * 256) + a[Len(a)]

(***************************************************************************)
(* hash.rs: the compact target codec.                                      *)
(***************************************************************************)
BitsExp(bits)   == (bits \div 16777216) % 256        \* (bits >> 24) as u8
BitsCoeff(bits) == bits % 8388608                    \* bits & COEFF_MASK

\* bits_to_target panics: on the coefficient assertion in every build; on
\* u8 overflow in exp - 3 or in 8 * (exp - 3) in a build with overflow
\* checks only
BitsToTargetPanics(bits, overflow_checks) ==
    \/ ~(BitsCoeff(bits) < COEFF_MASK)
    \/ /\ overflow_checks
       /\ \/ BitsExp(bits) < 3
          \/ 8 * (BitsExp(bits) - 3) > 255

\* 8 * (exp - 3) in u8 arithmetic, which wraps where it is not checked
BitsShift(bits) == (8 * ((BitsExp(bits) + 253) % 256)) % 256

\* bits_to_target: coeff << (8 * (exp - 3))
bits_to_target(bits) ==
    BigShlBytes(BigFromU32(BitsCoeff(bits)), BitsShift(bits) \div 8)

\* BigUint::to_bytes_be: zero is the one byte 0
BigToBytesBE(a) == IF Len(a) = 0 THEN <<0>> ELSE a

\* target_to_bits, the while loop: shift a byte out while more than three
\* bytes are left, stopping early once the value fits the coefficient mask
RECURSIVE TargetShrink(_, _)
TargetShrink(size, max_coeff) ==
    IF size > 3
    THEN LET shifted == BigShr8(max_coeff)
         IN  IF BigLeq(shifted, BigFromU32(COEFF_MASK))
             THEN [size |-> size - 1, max_coeff |-> shifted]
             ELSE TargetShrink(size - 1, shifted)
    ELSE [size |-> size, max_coeff |-> max_coeff]

\* target_to_bits: ((size + 3) << 24) | coeff, where coeff is the lowest u32
\* digit of what the loop left, or COEFF_MASK when there is no digit
target_to_bits(target) ==
    LET r     == TargetShrink(Len(BigToBytesBE(target)), target)
        low   == IF Len(r.max_coeff) <= 4 THEN r.max_coeff
                 ELSE SubSeq(r.max_coeff, Len(r.max_coeff) - 3, Len(r.max_coeff))
        coeff == IF Len(r.max_coeff) = 0 THEN COEFF_MASK ELSE BigToNat(low)
    IN  ((r.size + 3) * 16777216) + coeff

(***************************************************************************)
(* Consensus plug-ins.  The consensus state is cur_bits under PoW and      *)
(* cur_validators and validator_keys under PoS, next to the configuration  *)
(* fields the program reads: difficulty_adjust_interval and                *)
(* min_stake_amount.  The other configuration fields are never read.       *)
(***************************************************************************)
\* PoW::default / PoS::default
PoW_default == [cur_bits |-> DEFAULT_DIFFICULTY,
                difficulty_adjust_interval |-> DIFFICULTY_ADJUST_INTERVAL]
PoS_default == [cur_validators |-> <<>>, validator_keys |-> <<>>,
                min_stake_amount |-> MIN_STAKE_AMOUNT]
Consensus_default(k) == IF k = "PoW" THEN PoW_default ELSE PoS_default

\* PoW::genesis_data with the difficulty of the earlier chain (0x1d00_ffff)
PoW_genesis_data_OldDifficulty == [bits |-> 486604799, nonce |-> 0]

\* PoW::genesis_data / PoS::genesis_data
PoW_genesis_data == [bits |-> DEFAULT_DIFFICULTY, nonce |-> 0]
PoS_genesis_data == [validator_key |-> 0, signature |-> ZeroSignature]
genesis_data(k) == IF k = "PoW" THEN PoW_genesis_data ELSE PoS_genesis_data

\* what a call comes to: a panic, or the value it returns
Panics     == [panic |-> TRUE,  v |-> FALSE]
Returns(b) == [panic |-> FALSE, v |-> b]

\* PoWData::is_valid: the hash is at most the target of the payload's bits
PoWData_is_valid(data, hash, overflow_checks) ==
    IF BitsToTargetPanics(data.bits, overflow_checks) THEN Panics
    ELSE Returns(BigLeq(BigFromBytesBE(hash), bits_to_target(data.bits)))

\* one pass of the loop of PoWData::run that refreshes the timestamp after
\* every failed attempt
RunAttempt_RefreshAlways(o, self, bh, nonce, clock, overflow_checks) ==
    LET tried == [bh EXCEPT !.data.nonce = nonce]
        stop  == [done |-> FALSE, panic |-> TRUE, bh |-> tried, nonce |-> nonce]
    IN  IF BitsToTargetPanics(self.bits, overflow_checks) THEN stop
        ELSE IF PoWData_is_valid(self, DigestBytes(o, BlockHeader_hash(tried)),
                                 overflow_checks).v
        THEN [done |-> TRUE, panic |-> FALSE, bh |-> tried, nonce |-> nonce]
        ELSE [done  |-> FALSE, panic |-> FALSE,
              bh    |-> [tried EXCEPT !.timestamp = clock],
              nonce |-> nonce + 1]

\* one pass of the loop of PoWData::run: the header with the nonce is
\* returned when its hash is valid for self; otherwise the nonce advances
\* and, when it reaches a multiple of 1,000,000, the timestamp is set to
\* the clock.  The pass panics where is_valid does.  (wrapping_add(1) is
\* + 1 on the nonces followed here, which stay below
\* MaxRefreshes * RETRY_INTERVAL.)
RunAttempt(o, self, bh, nonce, clock, overflow_checks) ==
    LET tried == [bh EXCEPT !.data.nonce = nonce]
        stop  == [done |-> FALSE, panic |-> TRUE, bh |-> tried, nonce |-> nonce]
    IN  IF BitsToTargetPanics(self.bits, overflow_checks) THEN stop
        ELSE IF PoWData_is_valid(self, DigestBytes(o, BlockHeader_hash(tried)),
                                 overflow_checks).v
        THEN [done |-> TRUE, panic |-> FALSE, bh |-> tried, nonce |-> nonce]
        ELSE [done  |-> FALSE, panic |-> FALSE,
              bh    |-> IF (nonce + 1) % RETRY_INTERVAL = 0
                        THEN [tried EXCEPT !.timestamp = clock]
                        ELSE tried,
              nonce |-> nonce + 1]

\* PoW::validate: the hash is at most the target of the state's cur_bits
PoW_validate(o, state, block, overflow_checks) ==
    IF BitsToTargetPanics(state.cur_bits, overflow_checks) THEN Panics
    ELSE Returns(BigLeq(BigFromBytesBE(DigestBytes(o, BlockHeader_hash(block.header))),
                        bits_to_target(state.cur_bits)))

\* PoS::validate: the signature verifies over the header's hash, and the
\* key is registered with at least the minimal stake of the state
PoS_validate(o, state, block) ==
    LET pub_key   == block.header.data.validator_key
        signature == block.header.data.signature
        has_stake == /\ pub_key \in DOMAIN state.cur_validators
                     /\ state.cur_validators[pub_key] >= state.min_stake_amount
    IN  Verify(o, pub_key, BlockHeader_hash(block.header), signature) /\ has_stake

Consensus_validate(o, k, state, block, overflow_checks) ==
    IF k = "PoW" THEN PoW_validate(o, state, block, overflow_checks)
    ELSE Returns(PoS_validate(o, state, block))

\* the digests and challenges Consensus::validate reads the value of
ValidateReads(k, state, block, overflow_checks) ==
    IF k = "PoW"
    THEN IF BitsToTargetPanics(state.cur_bits, overflow_checks) THEN {}
         ELSE {BlockHeader_hash(block.header)}
    ELSE IF /\ block.header.data.validator_key = 0
            /\ block.header.data.signature = ZeroSignature
         THEN {Challenge(0, BlockHeader_hash(block.header), ZeroSignature)}
         ELSE {}

\* PoS::add_validator
PoS_add_validator(state, secret_key, stake) ==
    LET public_key == VerifyingKeyOf(secret_key)
        put(f, v)  == [x \in DOMAIN f \cup {public_key} |->
                          IF x = public_key THEN v ELSE f[x]]
    IN  [state EXCEPT !.cur_validators = put(@, stake),
                      !.validator_keys = put(@, secret_key)]

\* the sum of the stakes of cur_validators
RECURSIVE SumStakes(_, _)
SumStakes(f, ks) ==
    IF ks = {} THEN 0
    ELSE LET k == CHOOSE x \in ks : TRUE IN f[k] + SumStakes(f, ks \ {k})
TotalStake(state) == SumStakes(state.cur_validators, DOMAIN state.cur_validators)

\* PoS::select_validator: the keys the weighted draw can return; none when
\* the total stake is zero
PoS_select_validator(state) ==
    IF TotalStake(state) = 0 THEN {}
    ELSE {k \in DOMAIN state.cur_validators : state.cur_validators[k] > 0}

\* the walk of select_validator returning a validator when the draw equals
\* its stake as well
SelectWalk_DrawAtStake(stakes, order, random) ==
    LET RECURSIVE Walk(_, _)
        Walk(o, r) ==
            IF Len(o) = 0 THEN <<>>
            ELSE IF r <= stakes[Head(o)] THEN <<Head(o)>>
            ELSE Walk(Tail(o), r - stakes[Head(o)])
    IN  Walk(order, random)

\* the walk of select_validator over cur_validators in the map's iteration
\* order, from the draw random: Some(key) or None
SelectWalk(stakes, order, random) ==
    LET RECURSIVE Walk(_, _)
        Walk(o, r) ==
            IF Len(o) = 0 THEN <<>>
            ELSE IF r < stakes[Head(o)] THEN <<Head(o)>>
            ELSE Walk(Tail(o), r - stakes[Head(o)])
    IN  Walk(order, random)

\* PoS::select_validator with the iteration order and the draw it makes
select_validator(state, order, random) ==
    IF TotalStake(state) = 0 THEN <<>>
    ELSE SelectWalk(state.cur_validators, order, random)

\* PoW::generate_block naming the block before prev as the previous block
PoW_generate_block_StalePrev(state, prev, txs, time) ==
    LET root == Transactions_merkle_root(txs)
    IN  IF ~root.some THEN [ok |-> FALSE, err |-> "No merkle root found!", v |-> <<>>]
        ELSE [ok  |-> TRUE, err |-> "",
              v   |-> <<[header |-> [prev_hash   |-> prev.header.prev_hash,
                                     merkle_root |-> root.v,
                                     timestamp   |-> time,
                                     data        |-> [bits  |-> state.cur_bits,
                                                      nonce |-> 0]],
                         txs    |-> txs]>>]

\* PoW::generate_block: a block on prev carrying cur_bits and nonce 0, not
\* mined; time is Utc::now().timestamp()
PoW_generate_block(state, prev, txs, time) ==
    LET root == Transactions_merkle_root(txs)
    IN  IF ~root.some THEN [ok |-> FALSE, err |-> "No merkle root found!", v |-> <<>>]
        ELSE [ok  |-> TRUE, err |-> "",
              v   |-> <<[header |-> [prev_hash   |-> <<BlockHeader_hash(prev.header)>>,
                                     merkle_root |-> root.v,
                                     timestamp   |-> time,
                                     data        |-> [bits  |-> state.cur_bits,
                                                      nonce |-> 0]],
                         txs    |-> txs]>>]

\* PoS::generate_block signing with the all-zero secret key when the drawn
\* validator's key is not held, and drawing nobody as the all-zero key
PoS_generate_block_DefaultKey(state, prev, txs, time, sel) ==
    LET root == Transactions_merkle_root(txs)
        hash == BlockHeader_hash(prev.header)
        key  == IF sel = <<>> THEN 0 ELSE sel[1]
        sk   == IF key \in DOMAIN state.validator_keys
                THEN state.validator_keys[key] ELSE 0
    IN  IF ~root.some
        THEN [ok |-> FALSE, err |-> "No merkle root found", v |-> <<>>]
        ELSE [ok  |-> TRUE, err |-> "",
              v   |-> <<[header |-> [prev_hash   |-> <<hash>>,
                                     merkle_root |-> root.v,
                                     timestamp   |-> time,
                                     data        |-> [validator_key |-> key,
                                                      signature |-> Sign(sk, hash)]],
                         txs    |-> txs]>>]

\* PoS::generate_block with the validator the draw returned (sel, the empty
\* sequence for None): the signature is made over the hash of prev's header
PoS_generate_block(state, prev, txs, time, sel) ==
    LET root == Transactions_merkle_root(txs)
        hash == BlockHeader_hash(prev.header)
    IN  IF sel = <<>>
        THEN [ok |-> FALSE, err |-> "No validator selected", v |-> <<>>]
        ELSE IF sel[1] \notin DOMAIN state.validator_keys
        THEN [ok |-> FALSE, err |-> "No secret key found", v |-> <<>>]
        ELSE IF ~root.some
        THEN [ok |-> FALSE, err |-> "No merkle root found", v |-> <<>>]
        ELSE [ok  |-> TRUE, err |-> "",
              v   |-> <<[header |-> [prev_hash   |-> <<hash>>,
                                     merkle_root |-> root.v,
                                     timestamp   |-> time,
                                     data        |->
                                        [validator_key |-> sel[1],
                                         signature     |->
                                            Sign(state.validator_keys[sel[1]], hash)]],
                         txs    |-> txs]>>]

\* the draws select_validator can make in a state
Draws(state) ==
    IF PoS_select_validator(state) = {} THEN {<<>>}
    ELSE {<<k>> : k \in PoS_select_validator(state)}

\* Consensus::generate_block: the results the call can return, each with
\* the draw that led to it
generate_block(k, state, prev, txs, time) ==
    IF k = "PoW" THEN {[sel |-> <<>>, r |-> PoW_generate_block(state, prev, txs, time)]}
    ELSE {[sel |-> sel, r |-> PoS_generate_block(state, prev, txs, time, sel)] :
             sel \in Draws(state)}

(***************************************************************************)
(* Blocks.                                                                 *)
(***************************************************************************)
\* Block::validate without the previous-hash comparison
Block_validate_NoPrev(block, prev) ==
    LET time_valid == block.header.timestamp >= prev.header.timestamp
        calc       == Transactions_merkle_root(block.txs)
    IN  IF ~calc.some THEN FALSE
        ELSE time_valid /\ calc.v = block.header.merkle_root

\* Block::validate without the timestamp comparison
Block_validate_NoTime(block, prev) ==
    LET prev_valid == block.header.prev_hash = <<BlockHeader_hash(prev.header)>>
        calc       == Transactions_merkle_root(block.txs)
    IN  IF ~calc.some THEN FALSE
        ELSE prev_valid /\ calc.v = block.header.merkle_root

\* Block::validate with the timestamp comparison turned round
Block_validate_TimeReversed(block, prev) ==
    LET prev_valid == block.header.prev_hash = <<BlockHeader_hash(prev.header)>>
        time_valid == block.header.timestamp <= prev.header.timestamp
        calc       == Transactions_merkle_root(block.txs)
    IN  IF ~calc.some THEN FALSE
        ELSE prev_valid /\ time_valid /\ calc.v = block.header.merkle_root

\* Block::validate without the Merkle root comparison
Block_validate_NoMerkle(block, prev) ==
    LET prev_valid == block.header.prev_hash = <<BlockHeader_hash(prev.header)>>
        time_valid == block.header.timestamp >= prev.header.timestamp
    IN  prev_valid /\ time_valid

\* Block::validate requiring a timestamp above the previous block's
Block_validate_TimeStrict(block, prev) ==
    LET prev_valid == block.header.prev_hash = <<BlockHeader_hash(prev.header)>>
        time_valid == block.header.timestamp > prev.header.timestamp
        calc       == Transactions_merkle_root(block.txs)
    IN  IF ~calc.some THEN FALSE
        ELSE prev_valid /\ time_valid /\ calc.v = block.header.merkle_root

\* Block::validate: previous hash, timestamp and Merkle root
Block_validate(block, prev) ==
    LET prev_valid == block.header.prev_hash = <<BlockHeader_hash(prev.header)>>
        time_valid == block.header.timestamp >= prev.header.timestamp
        calc       == Transactions_merkle_root(block.txs)
    IN  IF ~calc.some THEN FALSE
        ELSE prev_valid /\ time_valid /\ calc.v = block.header.merkle_root

\* Block::genesis
Block_genesis(k) ==
    [header |-> [prev_hash   |-> Zero64,
                 merkle_root |-> Zero64,
                 timestamp   |-> GENESIS_TIMESTAMP,
                 data        |-> genesis_data(k)],
     txs    |-> Transactions_test_new]

(***************************************************************************)
(* The key-value store.  blocks is the block_<hex(hash)> family, hidx the  *)
(* height_<h> family; last_hash, height, cur_bits (CUR_BITS) and state     *)
(* (CUR_STATE) hold at most one value (the empty sequence: the key is      *)
(* absent).                                                                *)
(***************************************************************************)
EmptyDb == [blocks |-> <<>>, hidx |-> <<>>,
            last_hash |-> <<>>, height |-> <<>>, cur_bits |-> <<>>, state |-> <<>>]

Put(f, key, val) == [x \in DOMAIN f \cup {key} |-> IF x = key THEN val ELSE f[x]]

\* BlockChain::get_height: the stored height, 0 when the key is absent
get_height(d) == IF d.height = <<>> THEN 0 ELSE d.height[1]

\* BlockChain::get_block
get_block(d, h) ==
    IF h \notin DOMAIN d.hidx THEN [ok |-> FALSE, v |-> <<>>]
    ELSE IF d.hidx[h] \notin DOMAIN d.blocks THEN [ok |-> FALSE, v |-> <<>>]
    ELSE [ok |-> TRUE, v |-> <<d.blocks[d.hidx[h]]>>]

\* BlockChain::get_last_block
get_last_block(d) == get_block(d, get_height(d))

\* adjust_difficulty retargeting at every height above 0, over the blocks
\* since the genesis while there are fewer than the interval
adjust_difficulty_EveryHeight(d, state, overflow_checks) ==
    LET height == get_height(d)
        from   == IF height < DIFFICULTY_ADJUST_INTERVAL THEN 0
                  ELSE height - DIFFICULTY_ADJUST_INTERVAL
        first  == get_block(d, from)
        lastb  == get_last_block(d)
        out    == [retarget |-> FALSE, panic |-> FALSE, err |-> FALSE,
                   bits |-> state.cur_bits, from |-> <<>>]
    IN  IF height = 0 THEN out
        ELSE IF ~first.ok \/ ~lastb.ok THEN [out EXCEPT !.err = TRUE]
        ELSE IF BitsToTargetPanics(first.v[1].header.data.bits, overflow_checks)
        THEN [out EXCEPT !.panic = TRUE]
        ELSE
          LET span == lastb.v[1].header.timestamp - first.v[1].header.timestamp
              actual_span == IF span < 1 THEN 1 ELSE span
              prev_target == bits_to_target(first.v[1].header.data.bits)
              scaled      == BigDivSmall(BigMulSmall(prev_target, TARGET_TIME_SPAN),
                                         actual_span)
              new_target  == BigClamp(scaled, BigDivSmall(prev_target, 4),
                                      BigMulSmall(prev_target, 4))
          IN  [out EXCEPT !.retarget = TRUE, !.bits = target_to_bits(new_target),
                          !.from = <<from>>]

\* BlockChain::adjust_difficulty: what it returns, and cur_bits when it
\* retargets.  retarget FALSE: nothing is written (the early return, or a
\* failure).  The height is tested against the state's
\* difficulty_adjust_interval (a remainder, which panics on 0); the first
\* block is read DIFFICULTY_ADJUST_INTERVAL below the height, a u64
\* subtraction that below that height panics in a build with overflow
\* checks and otherwise wraps to a height without an entry (err); from is
\* the height read; the decode of the first block's bits may panic.
adjust_difficulty(d, state, overflow_checks) ==
    LET height == get_height(d)
        out    == [retarget |-> FALSE, panic |-> FALSE, err |-> FALSE,
                   bits |-> state.cur_bits, from |-> <<>>]
    IN  IF state.difficulty_adjust_interval = 0 THEN [out EXCEPT !.panic = TRUE]
        ELSE IF height % state.difficulty_adjust_interval # 0 \/ height = 0 THEN out
        ELSE IF height < DIFFICULTY_ADJUST_INTERVAL
        THEN IF overflow_checks THEN [out EXCEPT !.panic = TRUE]
                                ELSE [out EXCEPT !.err = TRUE]
        ELSE
          LET from  == height - DIFFICULTY_ADJUST_INTERVAL
              first == get_block(d, from)
              lastb == get_last_block(d)
          IN  IF ~first.ok \/ ~lastb.ok THEN [out EXCEPT !.err = TRUE]
              ELSE IF BitsToTargetPanics(first.v[1].header.data.bits, overflow_checks)
              THEN [out EXCEPT !.panic = TRUE]
              ELSE
                LET span == lastb.v[1].header.timestamp - first.v[1].header.timestamp
                    actual_span == IF span < 1 THEN 1 ELSE span
                    prev_target == bits_to_target(first.v[1].header.data.bits)
                    scaled      == BigDivSmall(BigMulSmall(prev_target, TARGET_TIME_SPAN),
                                               actual_span)
                    new_target  == BigClamp(scaled, BigDivSmall(prev_target, 4),
                                            BigMulSmall(prev_target, 4))
                IN  [out EXCEPT !.retarget = TRUE, !.bits = target_to_bits(new_target),
                                !.from = <<from>>]

\* BlockChain::validate_new
validate_new(d, block) ==
    LET last == get_last_block(d)
    IN  last.ok /\ Block_validate(block, last.v[1])

\* the batch of add_block without the block body
AddBlockBatch_NoBody(d, block) ==
    LET block_hash == BlockHeader_hash(block.header)
        new_height == get_height(d) + 1
    IN  [d EXCEPT !.last_hash = <<block_hash>>,
                  !.hidx      = Put(@, new_height, block_hash),
                  !.height    = <<new_height>>]

\* the batch of add_block without last_hash
AddBlockBatch_NoLastHash(d, block) ==
    LET block_hash == BlockHeader_hash(block.header)
        new_height == get_height(d) + 1
    IN  [d EXCEPT !.blocks    = Put(@, block_hash, block),
                  !.hidx      = Put(@, new_height, block_hash),
                  !.height    = <<new_height>>]

\* the batch of add_block on the height read, not the height after it
AddBlockBatch_SameHeight(d, block) ==
    LET block_hash == BlockHeader_hash(block.header)
        new_height == get_height(d)
    IN  [d EXCEPT !.blocks    = Put(@, block_hash, block),
                  !.last_hash = <<block_hash>>,
                  !.hidx      = Put(@, new_height, block_hash),
                  !.height    = <<new_height>>]

\* the batch of add_block with last_hash set to the previous hash the block
\* names, not to the block's hash
AddBlockBatch_StaleLastHash(d, block) ==
    LET block_hash == BlockHeader_hash(block.header)
        new_height == get_height(d) + 1
    IN  [d EXCEPT !.blocks    = Put(@, block_hash, block),
                  !.last_hash = block.header.prev_hash,
                  !.hidx      = Put(@, new_height, block_hash),
                  !.height    = <<new_height>>]

\* the batch BlockChain::add_block writes
AddBlockBatch(d, block) ==
    LET block_hash == BlockHeader_hash(block.header)
        new_height == get_height(d) + 1
    IN  [d EXCEPT !.blocks    = Put(@, block_hash, block),
                  !.last_hash = <<block_hash>>,
                  !.hidx      = Put(@, new_height, block_hash),
                  !.height    = <<new_height>>]

\* add_block writing its batch whatever validate_new returns
add_block_WriteAlways(d, block) ==
    LET block_hash == BlockHeader_hash(block.header)
        new_height == get_height(d) + 1
    IN  [d EXCEPT !.blocks    = Put(@, block_hash, block),
                  !.last_hash = <<block_hash>>,
                  !.hidx      = Put(@, new_height, block_hash),
                  !.height    = <<new_height>>]

\* BlockChain::add_block: the store after the call
add_block(d, block) == IF validate_new(d, block) THEN AddBlockBatch(d, block) ELSE d

\* db.write(batch) of a batch add_block built when the height read was
\* new_height - 1
WriteBatchAt(d, block, new_height) ==
    LET block_hash == BlockHeader_hash(block.header)
    IN  [d EXCEPT !.blocks    = Put(@, block_hash, block),
                  !.last_hash = <<block_hash>>,
                  !.hidx      = Put(@, new_height, block_hash),
                  !.height    = <<new_height>>]

\* the encoding of the state with the secret keys written out as well
SerializeState_WithKeys(k, state) ==
    IF k = "PoW" THEN [cur_bits |-> state.cur_bits]
    ELSE [cur_validators |-> state.cur_validators,
          validator_keys |-> state.validator_keys]

\* serde: the persisted part of a consensus state (every other field is
\* #[serde(skip)]), and the state a stored value decodes to, in which the
\* skipped fields have the default of their type: 0, and the empty map
SerializeState(k, state) ==
    IF k = "PoW" THEN [cur_bits |-> state.cur_bits]
    ELSE [cur_validators |-> state.cur_validators]
DeserializeState(k, bytes) ==
    IF k = "PoW" THEN [cur_bits |-> bytes.cur_bits, difficulty_adjust_interval |-> 0]
    ELSE [cur_validators |-> bytes.cur_validators, validator_keys |-> <<>>,
          min_stake_amount |-> 0]

\* Consensus::get_state: the state decoded from CUR_STATE, or an error
get_state(d, k) ==
    IF d.state = <<>> THEN [ok |-> FALSE, v |-> <<>>]
    ELSE [ok |-> TRUE, v |-> <<DeserializeState(k, d.state[1])>>]

\* the CUR_BITS value of the genesis batch: the genesis header's bits
GenesisCurBits == Block_genesis("PoW").header.data.bits

\* the batch BlockChain::new writes when there is no height-0 entry: the
\* genesis block with CUR_BITS, whatever the consensus, and no CUR_STATE
GenesisBatch(d, k) ==
    LET genesis == Block_genesis(k)
        hash    == BlockHeader_hash(genesis.header)
    IN  [d EXCEPT !.blocks    = Put(@, hash, genesis),
                  !.last_hash = <<hash>>,
                  !.hidx      = Put(@, 0, hash),
                  !.height    = <<0>>,
                  !.cur_bits  = <<GenesisCurBits>>]

\* BlockChain::new: the store after opening
new_db(d, k) == IF 0 \notin DOMAIN d.hidx THEN GenesisBatch(d, k) ELSE d

\* BlockChain::new: cur_bits after opening, the value under CUR_BITS as the
\* call found it, or the default
new_cur_bits(d) ==
    IF d.cur_bits = <<>> THEN DEFAULT_DIFFICULTY ELSE d.cur_bits[1]

\* BlockChain::new: the in-memory consensus state after opening.  The call
\* reads CUR_BITS and nothing else: CUR_STATE is never read, so a PoS chain
\* starts from its default state whatever the store holds
new_cs(d, k) ==
    IF k = "PoW" THEN [PoW_default EXCEPT !.cur_bits = new_cur_bits(d)]
    ELSE PoS_default

(***************************************************************************)
(* The state machine.                                                      *)
(***************************************************************************)
VARIABLES
    kind,     \* the consensus the chain is built with: "PoW" or "PoS"
    opened,   \* BlockChain::new has returned a chain
    db,       \* the key-value store
    cs,       \* the consensus state held in memory
    last,     \* the last call: what it was given and what it returned
    now,      \* the wall clock, in seconds (Utc::now().timestamp())
    rounds,   \* generate_block / add_block rounds run since the store was created
    calls,    \* the add_block calls in flight, one per producer thread
    codec,    \* a target handed to the compact codec, and what came back
    search,   \* the nonce search in flight: PoWData::run on a header
    oracle    \* the digests and challenges read so far, with their values

vars == <<kind, opened, db, cs, last, now, rounds, calls, codec, search, oracle>>

NoCall == [op |-> "none", ok |-> TRUE, prev_match |-> TRUE, ts_less |-> FALSE,
           ret |-> 0, sel |-> <<>>, given |-> <<>>, panic |-> FALSE]

\* the producer threads, none of them inside add_block
Producers == {1, 2}
Idle      == [pc |-> "idle", block |-> <<>>, new_height |-> 0]
NoCalls   == [p \in Producers |-> Idle]

\* no target handed to the codec
NoCodec == [pc |-> "none", target |-> <<>>, bits |-> 0, back |-> <<>>]

\* no header handed to the nonce search
NoSearch == [pc |-> "none", bh |-> <<>>, nonce |-> 0, start |-> <<>>,
             overflow_checks |-> FALSE]

Init ==
    /\ kind \in {"PoW", "PoS"}
    /\ opened = FALSE
    /\ db = EmptyDb
    /\ cs = Consensus_default(kind)
    /\ last = NoCall
    /\ now = GENESIS_TIMESTAMP
    /\ rounds = 0
    /\ calls = NoCalls
    /\ search = NoSearch
    /\ oracle = <<>>
    /\ codec = NoCodec

\* BlockChain::new on the store
New ==
    /\ ~opened
    /\ opened' = TRUE
    /\ db' = new_db(db, kind)
    /\ cs' = new_cs(db, kind)
    /\ last' = [NoCall EXCEPT !.op = IF 0 \notin DOMAIN db.hidx THEN "new" ELSE "reopen"]
    /\ UNCHANGED <<kind, now, rounds, calls, codec, search, oracle>>

\* the blocks a caller may hand to add_block: the previous hash is the
\* tip's, the genesis' or the sentinel; the timestamp is the tip's, one
\* less or one more; the transactions are none, one or two, under the
\* Merkle root of one of the non-empty bodies
SubmittedBodies ==
    LET root(t) == Transactions_merkle_root(t).v
    IN  { [txs |-> <<0>>,    merkle_root |-> root(<<0>>)],
          [txs |-> <<0, 1>>, merkle_root |-> root(<<0, 1>>)],
          [txs |-> <<0>>,    merkle_root |-> root(<<0, 1>>)],
          [txs |-> <<>>,     merkle_root |-> root(<<0>>)] }
SubmittedBits == {DEFAULT_DIFFICULTY, 536936447}
SubmittedPrevs(d) ==
    {d.last_hash, <<BlockHeader_hash(Block_genesis(kind).header)>>, Zero64}
SubmittedTimes(d) ==
    LET t == get_last_block(d).v[1].header.timestamp IN {t - 1, t, t + 1}
SubmittedData(d) ==
    IF kind = "PoW"
    THEN [bits : SubmittedBits, nonce : 0..MaxNonce]
    ELSE [validator_key : {1, 2},
          signature : {ZeroSignature, Sign(1, d.last_hash[1])}]
SubmittedBlocks(d) ==
    { [header |-> [prev_hash   |-> p,
                   merkle_root |-> body.merkle_root,
                   timestamp   |-> t,
                   data        |-> data],
       txs    |-> body.txs] :
      p \in SubmittedPrevs(d), body \in SubmittedBodies,
      t \in SubmittedTimes(d), data \in SubmittedData(d) }

\* BlockChain::add_block(block)
AddBlock ==
    /\ opened
    /\ get_height(db) < MaxHeight
    /\ \E block \in SubmittedBlocks(db) :
          /\ db' = add_block(db, block)
          /\ last' = [ret        |-> 0,
                      sel        |-> <<>>,
                      given      |-> <<>>,
                      panic      |-> FALSE,
                      op         |-> "add_block",
                      ok         |-> validate_new(db, block),
                      prev_match |-> block.header.prev_hash = db.last_hash,
                      ts_less    |-> block.header.timestamp
                                       < get_last_block(db).v[1].header.timestamp]
    /\ UNCHANGED <<kind, opened, cs, now, rounds, calls, codec, search, oracle>>

\* the validators a caller registers: key 1 with the minimal stake, key 2
\* with a stake below it
SubmittedValidators ==
    { [secret_key |-> 1, stake |-> MIN_STAKE_AMOUNT], [secret_key |-> 2, stake |-> 60] }

\* PoS::add_validator through the chain's consensus
AddValidator ==
    /\ opened
    /\ kind = "PoS"
    /\ \E v \in SubmittedValidators :
          cs' = PoS_add_validator(cs, v.secret_key, v.stake)
    /\ last' = [NoCall EXCEPT !.op = "add_validator"]
    /\ UNCHANGED <<kind, opened, db, now, rounds, calls, codec, search, oracle>>

\* the chain is dropped and BlockChain::new opens the same path again
Reopen ==
    /\ opened
    /\ db' = new_db(db, kind)
    /\ cs' = new_cs(db, kind)
    /\ last' = [NoCall EXCEPT !.op = "reopen"]
    /\ UNCHANGED <<kind, opened, now, rounds, calls, codec, search, oracle>>

\* BlockChain::adjust_difficulty, in a build with or without overflow
\* checks: the new bits are written under CUR_STATE and set in memory
AdjustDifficulty ==
    /\ opened
    /\ kind = "PoW"
    /\ \E overflow_checks \in BOOLEAN :
         LET r == adjust_difficulty(db, cs, overflow_checks)
         IN  /\ db' = IF r.retarget
                      THEN [db EXCEPT !.state = <<[cur_bits |-> r.bits]>>]
                      ELSE db
             /\ cs' = IF r.retarget THEN [cs EXCEPT !.cur_bits = r.bits] ELSE cs
             /\ last' = [NoCall EXCEPT !.op = "adjust_difficulty",
                                       !.ok = ~r.panic /\ ~r.err,
                                       !.panic = r.panic,
                                       !.ret = r.bits, !.given = r.from]
    /\ UNCHANGED <<kind, opened, now, rounds, calls, codec, search, oracle>>

Next == New \/ AddBlock \/ AddValidator \/ Reopen \/ AdjustDifficulty

Spec == Init /\ [][Next]_vars

(***************************************************************************)
(* Two producer threads sharing one chain.  add_block takes &self and      *)
(* holds no lock: validate_new reads the tip, get_height reads the height  *)
(* for the batch, and db.write writes the batch, as three steps of each    *)
(* thread.                                                                 *)
(***************************************************************************)
\* Utc::now() advances
Tick ==
    /\ opened
    /\ now < GENESIS_TIMESTAMP + MaxTicks
    /\ now' = now + 1
    /\ UNCHANGED <<kind, opened, db, cs, last, rounds, calls, codec, search, oracle>>

GeneratedBodies == {<<0>>, <<0, 1>>}

\* producer p generates a block on the tip and calls add_block with it
RaceGenerate(p) ==
    /\ opened
    /\ calls[p].pc = "idle"
    /\ \E txs \in GeneratedBodies :
       \E g \in generate_block(kind, cs, get_last_block(db).v[1], txs, now) :
          /\ g.r.ok
          /\ calls' = [calls EXCEPT ![p] = [pc |-> "called", block |-> g.r.v,
                                            new_height |-> 0]]
    /\ UNCHANGED <<kind, opened, db, cs, last, now, rounds, codec, search, oracle>>

\* add_block of p, line 159: validate_new against the tip read now
RaceValidate(p) ==
    /\ calls[p].pc = "called"
    /\ calls' = [calls EXCEPT ![p].pc =
                    IF validate_new(db, calls[p].block[1]) THEN "validated"
                                                           ELSE "failed"]
    /\ UNCHANGED <<kind, opened, db, cs, last, now, rounds, codec, search, oracle>>

\* add_block of p, lines 160-168: the batch, on the height read now
RaceBatch(p) ==
    /\ calls[p].pc = "validated"
    /\ calls' = [calls EXCEPT ![p].pc = "batched",
                              ![p].new_height = get_height(db) + 1]
    /\ UNCHANGED <<kind, opened, db, cs, last, now, rounds, codec, search, oracle>>

\* add_block of p, lines 170-171: db.write(batch) and Ok(())
RaceWrite(p) ==
    /\ calls[p].pc = "batched"
    /\ db' = WriteBatchAt(db, calls[p].block[1], calls[p].new_height)
    /\ calls' = [calls EXCEPT ![p].pc = "done"]
    /\ UNCHANGED <<kind, opened, cs, last, now, rounds, codec, search, oracle>>

NextRace ==
    \/ New
    \/ AddValidator
    \/ Tick
    \/ \E p \in Producers : RaceGenerate(p)
    \/ \E p \in Producers : RaceValidate(p)
    \/ \E p \in Producers : RaceBatch(p)
    \/ \E p \in Producers : RaceWrite(p)

SpecRace == Init /\ [][NextRace]_vars

(***************************************************************************)
(* The rounds of the tests: a block is generated on the tip by the chain's *)
(* consensus and handed to add_block.                                      *)
(***************************************************************************)
\* the validators of test_pos, and the first of them without stake
TestValidators ==
    { [secret_key |-> 1, stake |-> 60], [secret_key |-> 2, stake |-> 100],
      [secret_key |-> 3, stake |-> 80], [secret_key |-> 1, stake |-> 0] }

\* PoS::add_validator with a validator of the tests, which registers them
\* one after the other
AddTestValidator ==
    /\ opened
    /\ kind = "PoS"
    /\ \E v \in TestValidators :
          /\ v.secret_key = Cardinality(DOMAIN cs.validator_keys) + 1
          /\ cs' = PoS_add_validator(cs, v.secret_key, v.stake)
    /\ last' = [NoCall EXCEPT !.op = "add_validator"]
    /\ UNCHANGED <<kind, opened, db, now, rounds, calls, codec, search, oracle>>

\* Consensus::put_state: the state is written under CUR_STATE
PutState ==
    /\ opened
    /\ db' = [db EXCEPT !.state = <<SerializeState(kind, cs)>>]
    /\ last' = [NoCall EXCEPT !.op = "put_state"]
    /\ UNCHANGED <<kind, opened, cs, now, rounds, calls, codec, search, oracle>>

\* one round: generate_block(get_last_block(), txs), then add_block of the
\* block when there is one
RoundStep ==
    /\ opened
    /\ \E g \in generate_block(kind, cs, get_last_block(db).v[1],
                                Transactions_test_new, now) :
          IF g.r.ok
          THEN /\ db' = add_block(db, g.r.v[1])
               /\ last' = [NoCall EXCEPT !.op = "round",
                                         !.ok = validate_new(db, g.r.v[1]),
                                         !.sel = g.sel]
          ELSE /\ db' = db
               /\ last' = [NoCall EXCEPT !.op = "generate_block",
                                         !.ok = FALSE,
                                         !.sel = g.sel]
    /\ rounds' = rounds + 1
    /\ UNCHANGED <<kind, opened, cs, now, calls, codec, search, oracle>>

Round == rounds < MaxRounds /\ RoundStep

\* the rounds of the tests, as the clock advances
NextRounds == New \/ AddTestValidator \/ Tick \/ Round

SpecRounds == Init /\ [][NextRounds]_vars

\* Consensus::get_state(chain)
GetState ==
    /\ opened
    /\ last' = [NoCall EXCEPT !.op = "get_state",
                              !.ok = get_state(db, kind).ok,
                              !.given = get_state(db, kind).v]
    /\ UNCHANGED <<kind, opened, db, cs, now, rounds, calls, codec, search, oracle>>

\* Consensus::get_state(chain) on a PoS chain followed by PoS::generate_block
\* on the state it returned, for the tip and the transactions of the tests:
\* the store and the chain's own state are not touched
GenerateOnStored ==
    /\ opened
    /\ kind = "PoS"
    /\ get_state(db, kind).ok
    /\ LET state == get_state(db, kind).v[1]
       IN  \E g \in generate_block(kind, state, get_last_block(db).v[1],
                                   Transactions_test_new, now) :
              last' = [NoCall EXCEPT !.op = "generate_block",
                                     !.ok = g.r.ok,
                                     !.sel = g.sel,
                                     !.given = <<Transactions_test_new, state>>]
    /\ UNCHANGED <<kind, opened, db, cs, now, rounds, calls, codec, search, oracle>>

\* the rounds of the tests on a chain whose state is saved, read, used to
\* generate a block, and that is opened again
NextReload ==
    New \/ AddTestValidator \/ PutState \/ GetState \/ GenerateOnStored \/ Reopen \/ Round

SpecReload == Init /\ [][NextReload]_vars

(***************************************************************************)
(* A PoW chain grown by rounds past one retargeting interval, with         *)
(* adjust_difficulty called at any height.                                 *)
(***************************************************************************)
InitPoW == Init /\ kind = "PoW"

\* a round while the chain is no higher than the interval
RetargetRound == get_height(db) <= DIFFICULTY_ADJUST_INTERVAL /\ RoundStep

NextRetarget == New \/ Tick \/ RetargetRound \/ AdjustDifficulty \/ Reopen

SpecRetarget == InitPoW /\ [][NextRetarget]_vars

\* every operation on a chain: hand-built blocks, validators, rounds on a
\* PoW chain (the consensus that retargets) until one interval of rounds
\* has been run, adjust_difficulty and reopening
NextKeep ==
    \/ New
    \/ AddBlock
    \/ AddValidator
    \/ (kind = "PoW" /\ rounds <= DIFFICULTY_ADJUST_INTERVAL /\ RoundStep)
    \/ AdjustDifficulty
    \/ Reopen

SpecKeep == Init /\ [][NextKeep]_vars

(***************************************************************************)
(* The compact codec of hash.rs on its own: a target is encoded by         *)
(* target_to_bits and the bits are decoded by bits_to_target.              *)
(***************************************************************************)
\* the targets handed to target_to_bits: the positive numbers of up to
\* MaxTargetLen bytes over a few byte values, and the default target
TargetDigits == {0, 1, 127, 128, 255}
Targets ==
    {t \in UNION {[1..n -> TargetDigits] : n \in 1..MaxTargetLen} : t[1] # 0}
        \cup {bits_to_target(DEFAULT_DIFFICULTY)}

InitCodec ==
    /\ kind = "PoW"
    /\ opened = FALSE
    /\ db = EmptyDb
    /\ cs = Consensus_default(kind)
    /\ last = NoCall
    /\ now = GENESIS_TIMESTAMP
    /\ rounds = 0
    /\ calls = NoCalls
    /\ search = NoSearch
    /\ oracle = <<>>
    /\ \E t \in Targets :
          codec = [pc |-> "given", target |-> t, bits |-> 0, back |-> <<>>]

\* target_to_bits(target)
Encode ==
    /\ codec.pc = "given"
    /\ codec' = [codec EXCEPT !.pc = "encoded", !.bits = target_to_bits(codec.target)]
    /\ UNCHANGED <<kind, opened, db, cs, last, now, rounds, calls, search, oracle>>

\* bits_to_target(bits), in a build with or without overflow checks: the
\* target, or a panic
Decode ==
    /\ codec.pc = "encoded"
    /\ \E overflow_checks \in BOOLEAN :
          codec' = IF BitsToTargetPanics(codec.bits, overflow_checks)
                   THEN [codec EXCEPT !.pc = "panicked"]
                   ELSE [codec EXCEPT !.pc = "decoded",
                                      !.back = bits_to_target(codec.bits)]
    /\ UNCHANGED <<kind, opened, db, cs, last, now, rounds, calls, search, oracle>>

NextCodec == Encode \/ Decode

SpecCodec == InitCodec /\ [][NextCodec]_vars

\* The targets a retarget can hand to target_to_bits: the clamped value is
\* any non-negative integer, zero included (prev_target / 4 of a target
\* below 4).
ProducedTargets == Targets \cup {BigFromU32(0)}

InitProduced ==
    /\ kind = "PoW"
    /\ opened = FALSE
    /\ db = EmptyDb
    /\ cs = Consensus_default(kind)
    /\ last = NoCall
    /\ now = GENESIS_TIMESTAMP
    /\ rounds = 0
    /\ calls = NoCalls
    /\ search = NoSearch
    /\ oracle = <<>>
    /\ \E t \in ProducedTargets :
          codec = [pc |-> "given", target |-> t, bits |-> 0, back |-> <<>>]

NextProduced == Encode \/ Decode

SpecProduced == InitProduced /\ [][NextProduced]_vars

(***************************************************************************)
(* bits_to_target on its own, on bits of exponent 3 and above and of       *)
(* coefficient below 2^23.                                                 *)
(***************************************************************************)
DecodedExps   == {3, 4, 5, 6, 31, 32, 33, 34, 35, 127}
DecodedCoeffs == {0, 1, 255, 256, 65535, 8388606, 8388607}

\* the bits handed to bits_to_target: (exp << 24) | coeff
DecodedBits == {(e * 16777216) + c : e \in DecodedExps, c \in DecodedCoeffs}

InitDecode ==
    /\ kind = "PoW"
    /\ opened = FALSE
    /\ db = EmptyDb
    /\ cs = Consensus_default(kind)
    /\ last = NoCall
    /\ now = GENESIS_TIMESTAMP
    /\ rounds = 0
    /\ calls = NoCalls
    /\ search = NoSearch
    /\ oracle = <<>>
    /\ \E b \in DecodedBits :
          codec = [pc |-> "encoded", target |-> <<>>, bits |-> b, back |-> <<>>]

NextDecode == Decode

SpecDecode == InitDecode /\ [][NextDecode]_vars

(***************************************************************************)
(* Block::mine: the nonce search of PoWData::run on the header of the tip  *)
(* with its bits set, as test_pow_validation does, the clock advancing     *)
(* while it runs.                                                          *)
(***************************************************************************)
\* the bits set on the header: TEST_BITS, 0x2100_ffff, 0x0300_0000 whose
\* target is zero, 0x0200_0001 whose exponent is below 3 and 0x1f7f_ffff
\* whose coefficient fails the assertion
MinedBits == {DEFAULT_DIFFICULTY, 553713663, 50331648, 33554433, 528482303}

\* the headers handed to the search: the tip's with the bits set, with its
\* own timestamp or one a second ahead of the clock
MinedHeaders(d) ==
    LET h == get_last_block(d).v[1].header
    IN  {[h EXCEPT !.data.bits = b, !.timestamp = t] :
            b \in MinedBits, t \in {h.timestamp, now + 1}}

\* Block::mine: run(self.header.data, self.header.clone()) starts, nonce 0,
\* in a build with or without overflow checks
StartRun ==
    /\ opened
    /\ kind = "PoW"
    /\ search.pc = "none"
    /\ \E bh \in MinedHeaders(db), overflow_checks \in BOOLEAN :
          search' = [pc |-> "running", bh |-> bh, nonce |-> 0, start |-> bh,
                     overflow_checks |-> overflow_checks]
    /\ UNCHANGED <<kind, opened, db, cs, last, now, rounds, calls, codec, oracle>>

\* the nonce of the last pass before the next refresh
LastBeforeRefresh(nonce) ==
    (((nonce \div RETRY_INTERVAL) + 1) * RETRY_INTERVAL) - 1

\* the digest a pass of the loop reads the bytes of
RunReads ==
    IF BitsToTargetPanics(search.start.data.bits, search.overflow_checks) THEN {}
    ELSE {BlockHeader_hash([search.bh EXCEPT !.data.nonce = search.nonce])}

\* one pass of the loop; under a target of zero, the pass before a refresh
RunTry ==
    /\ search.pc = "running"
    /\ search.nonce < MaxRefreshes * RETRY_INTERVAL
    /\ \/ bits_to_target(search.start.data.bits) # <<>>
       \/ search.nonce = LastBeforeRefresh(search.nonce)
    /\ \E o \in Extensions(oracle, RunReads) :
          /\ Cardinality(DOMAIN o) <= MaxHashed
          /\ oracle' = o
          /\ LET r == RunAttempt(o, search.start.data, search.bh, search.nonce, now,
                                 search.overflow_checks)
             IN  search' = [search EXCEPT
                              !.pc    = IF r.panic THEN "panicked"
                                        ELSE IF r.done THEN "returned" ELSE "running",
                              !.bh    = r.bh,
                              !.nonce = r.nonce]
    /\ UNCHANGED <<kind, opened, db, cs, last, now, rounds, calls, codec>>

\* the passes of the loop up to the last one before the next refresh, under
\* a target of zero, which no hash meets: each sets the nonce and advances
RunSkip ==
    /\ search.pc = "running"
    /\ ~BitsToTargetPanics(search.start.data.bits, search.overflow_checks)
    /\ bits_to_target(search.start.data.bits) = <<>>
    /\ search.nonce < MaxRefreshes * RETRY_INTERVAL
    /\ search.nonce < LastBeforeRefresh(search.nonce)
    /\ search' = [search EXCEPT !.bh.data.nonce = LastBeforeRefresh(search.nonce) - 1,
                                 !.nonce = LastBeforeRefresh(search.nonce)]
    /\ UNCHANGED <<kind, opened, db, cs, last, now, rounds, calls, codec, oracle>>

NextMine == New \/ Tick \/ Round \/ StartRun \/ RunTry \/ RunSkip

SpecMine == InitPoW /\ [][NextMine]_vars

(***************************************************************************)
(* add_block of hand-built blocks, with what the block was like recorded   *)
(* next to the verdict.                                                    *)
(***************************************************************************)
\* BlockChain::add_block of a submitted block
AppendCall ==
    /\ opened
    /\ get_height(db) < MaxHeight
    /\ \E block \in SubmittedBlocks(db) :
          LET prev == get_last_block(db).v[1]
              calc == Transactions_merkle_root(block.txs)
          IN  /\ db' = add_block(db, block)
              /\ last' = [NoCall EXCEPT
                    !.op         = "add_block",
                    !.ok         = validate_new(db, block),
                    !.prev_match = (block.header.prev_hash = db.last_hash),
                    !.ts_less    = (block.header.timestamp < prev.header.timestamp),
                    !.given      = <<[ts_equal |-> block.header.timestamp
                                                     = prev.header.timestamp,
                                      merkle_valid |-> calc.some /\
                                          calc.v = block.header.merkle_root]>>]
    /\ UNCHANGED <<kind, opened, cs, now, rounds, calls, codec, search, oracle>>

NextAppend == New \/ AppendCall

SpecAppend == Init /\ [][NextAppend]_vars

(***************************************************************************)
(* A PoW chain opened with a configured difficulty_adjust_interval, grown  *)
(* by rounds, with adjust_difficulty called at any height.                 *)
(***************************************************************************)
ConfiguredIntervals == {2, 5, DIFFICULTY_ADJUST_INTERVAL}

\* BlockChain::new with a PoWConfig whose difficulty_adjust_interval is set
NewConfigured ==
    /\ ~opened
    /\ opened' = TRUE
    /\ db' = new_db(db, kind)
    /\ \E i \in ConfiguredIntervals :
          cs' = [new_cs(db, kind) EXCEPT !.difficulty_adjust_interval = i]
    /\ last' = [NoCall EXCEPT !.op = "new"]
    /\ UNCHANGED <<kind, now, rounds, calls, codec, search, oracle>>

NextInterval == NewConfigured \/ Tick \/ RetargetRound \/ AdjustDifficulty

SpecInterval == InitPoW /\ [][NextInterval]_vars

(***************************************************************************)
(* Rounds with bodies of no, one or two transactions, and add_block of     *)
(* hand-built blocks without transactions.                                 *)
(***************************************************************************)
ProducedBodies == {<<>>, <<0>>, <<0, 1>>}

\* generate_block(get_last_block(), txs), then add_block of the block when
\* there is one
Produce ==
    /\ opened
    /\ rounds < MaxRounds
    /\ \E txs \in ProducedBodies :
       \E g \in generate_block(kind, cs, get_last_block(db).v[1], txs, now) :
          IF g.r.ok
          THEN /\ db' = add_block(db, g.r.v[1])
               /\ last' = [NoCall EXCEPT !.op = "round",
                                         !.ok = validate_new(db, g.r.v[1]),
                                         !.sel = g.sel,
                                         !.given = <<txs>>]
          ELSE /\ db' = db
               /\ last' = [NoCall EXCEPT !.op = "generate_block",
                                         !.ok = FALSE,
                                         !.sel = g.sel,
                                         !.given = <<txs>>]
    /\ rounds' = rounds + 1
    /\ UNCHANGED <<kind, opened, cs, now, calls, codec, search, oracle>>

\* the blocks without transactions a caller may build on the tip: the tip's
\* hash and timestamp, the root of one transaction or the all-zero root
EmptyBlocks(d) ==
    {[header |-> [prev_hash   |-> d.last_hash,
                  merkle_root |-> root,
                  timestamp   |-> get_last_block(d).v[1].header.timestamp,
                  data        |-> genesis_data(kind)],
      txs    |-> <<>>] :
        root \in {Zero64, Transactions_merkle_root(<<0>>).v}}

\* BlockChain::add_block of a block without transactions
AddEmptyBlock ==
    /\ opened
    /\ \E block \in EmptyBlocks(db) :
          /\ db' = add_block(db, block)
          /\ last' = [NoCall EXCEPT !.op = "add_block",
                                    !.ok = validate_new(db, block),
                                    !.given = <<block>>]
    /\ UNCHANGED <<kind, opened, cs, now, rounds, calls, codec, search, oracle>>

NextEmpty == New \/ AddTestValidator \/ Produce \/ AddEmptyBlock

SpecEmpty == Init /\ [][NextEmpty]_vars

(***************************************************************************)
(* Consensus::validate called on blocks built on the tip, next to rounds   *)
(* whose validators may hold the minimal stake.                            *)
(***************************************************************************)
\* BlockHeader::hash of the header with an all-zero signature in the place
\* of its own
PresignHash(h) == BlockHeader_hash([h EXCEPT !.data.signature = ZeroSignature])

ValidatedBits == {DEFAULT_DIFFICULTY, 553713663}

\* the proof payloads of the blocks handed to validate: under PoW the
\* default bits or 0x2100_ffff and a nonce; under PoS a key and no signature,
\* the key's or the other key's over the presign hash, or the key's over
\* the previous block's hash, and the all-zero key and signature
ValidatedData(h) ==
    IF kind = "PoW"
    THEN [bits : ValidatedBits, nonce : 0..MaxNonce]
    ELSE UNION {
           { [validator_key |-> k, signature |-> ZeroSignature],
             [validator_key |-> k,
              signature |-> Sign(k, PresignHash([h EXCEPT !.data.validator_key = k]))],
             [validator_key |-> k,
              signature |-> Sign(3 - k, PresignHash([h EXCEPT !.data.validator_key = k]))],
             [validator_key |-> k, signature |-> Sign(k, h.prev_hash[1])] } :
           k \in {1, 2} }
         \cup {PoS_genesis_data}

\* the blocks handed to validate: blocks built on the tip, and the tip
ValidatedBlocks(d) ==
    LET h == [prev_hash   |-> d.last_hash,
              merkle_root |-> Transactions_merkle_root(Transactions_test_new).v,
              timestamp   |-> now,
              data        |-> genesis_data(kind)]
    IN  { [header |-> [h EXCEPT !.data = data], txs |-> Transactions_test_new] :
            data \in ValidatedData(h) }
        \cup {get_last_block(d).v[1]}

\* Consensus::validate of a block, under the state in memory, in a build
\* with or without overflow checks
ValidateCall ==
    /\ opened
    /\ \E block \in ValidatedBlocks(db), overflow_checks \in BOOLEAN :
       \E o \in Extensions(oracle, ValidateReads(kind, cs, block, overflow_checks)) :
          /\ Cardinality(DOMAIN o) <= MaxHashed
          /\ oracle' = o
          /\ LET r == Consensus_validate(o, kind, cs, block, overflow_checks)
             IN  last' = [NoCall EXCEPT !.op = "validate",
                                       !.ok = r.v,
                                       !.panic = r.panic,
                                       !.given = <<block>>]
    /\ UNCHANGED <<kind, opened, db, cs, now, rounds, calls, codec, search>>

NextValidate == New \/ AddValidator \/ Round \/ ValidateCall

SpecValidate == Init /\ [][NextValidate]_vars

(***************************************************************************)
(* select_validator over registries of small stakes, in every iteration    *)
(* order of the map and with every draw.                                   *)
(***************************************************************************)
\* PoS::add_validator of the next key with a stake of 0..MaxStake
AddStake ==
    /\ opened
    /\ kind = "PoS"
    /\ \E k \in Keys, stake \in 0..MaxStake :
          /\ k = Cardinality(DOMAIN cs.validator_keys) + 1
          /\ cs' = PoS_add_validator(cs, k, stake)
    /\ last' = [NoCall EXCEPT !.op = "add_validator"]
    /\ UNCHANGED <<kind, opened, db, now, rounds, calls, codec, search, oracle>>

\* the orders a HashMap of the keys S may iterate in
Orders(S) ==
    {o \in [1..Cardinality(S) -> S] :
        \A i, j \in 1..Cardinality(S) : (i # j) => (o[i] # o[j])}

\* rng.random_range(0..total_stake)
RandomRange(total) == 0..(total - 1)

\* PoS::select_validator
SelectCall ==
    /\ opened
    /\ kind = "PoS"
    /\ \E order \in Orders(DOMAIN cs.cur_validators) :
       \E random \in (IF TotalStake(cs) = 0 THEN {0} ELSE RandomRange(TotalStake(cs))) :
          last' = [NoCall EXCEPT !.op = "select_validator",
                                 !.sel = select_validator(cs, order, random),
                                 !.ret = random,
                                 !.given = <<order>>]
    /\ UNCHANGED <<kind, opened, db, cs, now, rounds, calls, codec, search, oracle>>

NextSelect == New \/ AddStake \/ SelectCall

SpecSelect == Init /\ [][NextSelect]_vars

(***************************************************************************)
(* The compact codec on two targets, the first not above the second.       *)
(***************************************************************************)
\* the targets of up to three bytes
ShortTargets == {t \in Targets : Len(t) <= 3}

\* one target given to the codec
Given(t) == [pc |-> "given", target |-> t, bits |-> 0, back |-> <<>>]

InitOrder ==
    /\ kind = "PoW"
    /\ opened = FALSE
    /\ db = EmptyDb
    /\ cs = Consensus_default(kind)
    /\ last = NoCall
    /\ now = GENESIS_TIMESTAMP
    /\ rounds = 0
    /\ calls = NoCalls
    /\ search = NoSearch
    /\ oracle = <<>>
    /\ \E t1 \in ShortTargets, t2 \in ShortTargets :
          /\ BigLeq(t1, t2)
          /\ codec = <<Given(t1), Given(t2)>>

\* target_to_bits of the i-th target
EncodeOf(i) ==
    /\ codec[i].pc = "given"
    /\ codec' = [codec EXCEPT ![i].pc = "encoded",
                              ![i].bits = target_to_bits(codec[i].target)]
    /\ UNCHANGED <<kind, opened, db, cs, last, now, rounds, calls, search, oracle>>

\* bits_to_target of the bits of the i-th target: the target, or a panic
DecodeOf(i) ==
    /\ codec[i].pc = "encoded"
    /\ \E overflow_checks \in BOOLEAN :
          codec' = IF BitsToTargetPanics(codec[i].bits, overflow_checks)
                   THEN [codec EXCEPT ![i].pc = "panicked"]
                   ELSE [codec EXCEPT ![i].pc = "decoded",
                                      ![i].back = bits_to_target(codec[i].bits)]
    /\ UNCHANGED <<kind, opened, db, cs, last, now, rounds, calls, search, oracle>>

NextOrder == \E i \in {1, 2} : EncodeOf(i) \/ DecodeOf(i)

SpecOrder == InitOrder /\ [][NextOrder]_vars

(***************************************************************************)
(* Hashing hand-built headers.  prev_hash and merkle_root are public       *)
(* Vec<u8> fields, so a header can carry byte strings of any length; here  *)
(* each is a string of single bytes.                                       *)
(***************************************************************************)
CraftedByteValues == {1, 2}
CraftedFields ==
    UNION {[1..n -> {Bytes(b, 1) : b \in CraftedByteValues}] : n \in 0..MaxFieldLen}
CraftedHeaders ==
    {[prev_hash |-> p, merkle_root |-> m,
      timestamp |-> GENESIS_TIMESTAMP, data |-> PoW_genesis_data] :
        p \in CraftedFields, m \in CraftedFields}

Crafted(h) == [pc |-> "given", header |-> h, fed |-> <<>>, hash |-> <<>>]

InitCraft ==
    /\ kind = "PoW"
    /\ opened = FALSE
    /\ db = EmptyDb
    /\ cs = Consensus_default(kind)
    /\ last = NoCall
    /\ now = GENESIS_TIMESTAMP
    /\ rounds = 0
    /\ calls = NoCalls
    /\ search = NoSearch
    /\ oracle = <<>>
    /\ \E h1 \in CraftedHeaders, h2 \in CraftedHeaders :
          codec = <<Crafted(h1), Crafted(h2)>>

\* BlockHeader::hash of the i-th header: the bytes fed to the hasher and
\* the digest that results
HashCrafted(i) ==
    /\ codec[i].pc = "given"
    /\ codec' = [codec EXCEPT ![i].pc = "hashed",
                              ![i].fed = HeaderBytes(codec[i].header),
                              ![i].hash = <<BlockHeader_hash(codec[i].header)>>]
    /\ UNCHANGED <<kind, opened, db, cs, last, now, rounds, calls, search, oracle>>

NextCraft == \E i \in {1, 2} : HashCrafted(i)

SpecCraft == InitCraft /\ [][NextCraft]_vars

(***************************************************************************)
(* Properties of the chain store.                                          *)
(***************************************************************************)
Height     == get_height(db)
BlockAt(h) == db.blocks[db.hidx[h]]
HashAt(h)  == BlockHeader_hash(BlockAt(h).header)
GenesisHash(k) == BlockHeader_hash(Block_genesis(k).header)

\* C1: once the store is opened, every height from 0 to the current height
\* has a height entry, and the entry is the header hash of a block whose
\* body is stored under that hash.
C1_HeightIndexComplete ==
    opened =>
        \A h \in 0..Height :
            /\ h \in DOMAIN db.hidx
            /\ db.hidx[h] \in DOMAIN db.blocks
            /\ BlockHeader_hash(db.blocks[db.hidx[h]].header) = db.hidx[h]

\* a block was appended and a later add_block call failed
C1_Witness ==
    /\ opened
    /\ Height >= 1
    /\ last.op = "add_block"
    /\ ~last.ok

\* C2: the value under last_hash is the value under the height entry of
\* the current height.
C2_LastHashIsTip ==
    opened =>
        /\ Height \in DOMAIN db.hidx
        /\ db.last_hash = <<db.hidx[Height]>>

\* the tip is an appended block, not the genesis
C2_Witness ==
    /\ opened
    /\ Height >= 1
    /\ last.op = "add_block"
    /\ last.ok
    /\ db.last_hash # <<GenesisHash(kind)>>

\* C3: every block above the genesis names the header hash of the block
\* one below it as its previous hash.
C3_HashLinked ==
    opened =>
        \A h \in 1..Height :
            BlockAt(h).header.prev_hash = <<HashAt(h - 1)>>

\* a block was appended on the genesis, and the last call offered a block
\* on a wrong previous hash
C3_Witness ==
    /\ opened
    /\ Height >= 1
    /\ BlockAt(1).header.prev_hash = <<GenesisHash(kind)>>
    /\ last.op = "add_block"
    /\ ~last.prev_match

\* C4: timestamps never decrease along the chain.
C4_TimestampsMonotone ==
    opened =>
        \A h \in 1..Height :
            BlockAt(h).header.timestamp >= BlockAt(h - 1).header.timestamp

\* a block with a later timestamp than its parent is on the chain, after a
\* call that offered an earlier one
C4_Witness ==
    /\ opened
    /\ \E h \in 1..Height :
          BlockAt(h).header.timestamp > BlockAt(h - 1).header.timestamp
    /\ last.op = "add_block"
    /\ last.ts_less

\* C5: every block above the genesis carries the Merkle root of its own
\* transactions.
C5_MerkleRootCommitted ==
    opened =>
        \A h \in 1..Height :
            /\ Transactions_merkle_root(BlockAt(h).txs).some
            /\ Transactions_merkle_root(BlockAt(h).txs).v = BlockAt(h).header.merkle_root

\* a block of two transactions is on the chain under a hashed root
C5_Witness ==
    /\ opened
    /\ \E h \in 1..Height :
          /\ Len(BlockAt(h).txs) = 2
          /\ BlockAt(h).header.merkle_root
               = <<Sha256(<<Transaction_hash(0), Transaction_hash(1)>>)>>

\* C6: on a PoW chain every block above the genesis has a header hash at
\* most the target of its own bits (checked on the blocks whose hash has
\* been read).
C6_PoWCommittedMeetsTarget ==
    (opened /\ kind = "PoW") =>
        \A h \in 1..Height :
            (HashAt(h) \in DOMAIN oracle) =>
                PoWData_is_valid(BlockAt(h).header.data,
                                 DigestBytes(oracle, HashAt(h)), FALSE).v

\* C7: on a PoS chain every block add_block commits carries a signature
\* that verifies against its validator key (over the header hash with the
\* signature zeroed, or over the header hash as PoS::validate takes it),
\* and at the commit the registry maps that key to the minimal stake or more.
C7_PoSCommittedSigned ==
    [][(last'.op = "add_block" /\ last'.ok /\ kind = "PoS") =>
          LET b   == db'.blocks[db'.hidx[get_height(db')]]
              key == b.header.data.validator_key
          IN  /\ \E msg \in {BlockHeader_hash(b.header),
                             BlockHeader_hash([b.header EXCEPT
                                                 !.data.signature = ZeroSignature])} :
                    Verify(oracle, key, msg, b.header.data.signature)
              /\ key \in DOMAIN cs.cur_validators
              /\ cs.cur_validators[key] >= MIN_STAKE_AMOUNT]_vars

\* C8: opening a store that has no height-0 entry leaves height 0 and the
\* genesis block at height 0 and at the tip: previous hash and Merkle root
\* 64 ASCII '0' bytes, timestamp 1685000000, the default proof payload;
\* under PoW the genesis bits and the chain's cur_bits are 0x1f00ffff.
C8_GenesisBootstrap ==
    last.op = "new" =>
        LET sentinel == <<[tag |-> "u8", w |-> <<>>, n |-> <<48, 64>>]>>
            g        == get_block(db, 0)
        IN  /\ Height = 0
            /\ g.ok
            /\ get_last_block(db) = g
            /\ g.v[1].header.prev_hash = sentinel
            /\ g.v[1].header.merkle_root = sentinel
            /\ g.v[1].header.timestamp = 1685000000
            /\ kind = "PoW" =>
                  /\ g.v[1].header.data = [bits |-> 520159231, nonce |-> 0]
                  /\ cs.cur_bits = 520159231
            /\ kind = "PoS" =>
                  g.v[1].header.data = [validator_key |-> 0, signature |-> ZeroSignature]

\* the store was opened fresh, under PoW
C8_Witness ==
    /\ last.op = "new"
    /\ kind = "PoW"
    /\ opened
    /\ 0 \in DOMAIN db.hidx

\* C9: add_block of a block whose previous hash is not the stored
\* last_hash fails and leaves every key of the store as it was.
C9_WrongPrevRejected ==
    [][(last'.op = "add_block" /\ ~last'.prev_match) => (~last'.ok /\ db' = db)]_vars

\* a block on the genesis hash was refused when the tip was another block
C9_Witness ==
    /\ last.op = "add_block"
    /\ ~last.prev_match
    /\ ~last.ts_less
    /\ ~last.ok
    /\ Height >= 1

\* C10: on a PoW chain add_block of a block on the right previous hash
\* with a timestamp below the tip's fails, and height and last_hash stay.
C10_EarlierTimestampRejected ==
    [][(last'.op = "add_block" /\ kind = "PoW" /\ last'.prev_match /\ last'.ts_less)
          => (/\ ~last'.ok
              /\ get_height(db') = get_height(db)
              /\ db'.last_hash = db.last_hash)]_vars

\* such a block was refused
C10_Witness ==
    /\ kind = "PoW"
    /\ last.op = "add_block"
    /\ last.prev_match
    /\ last.ts_less
    /\ ~last.ok

\* C11: when two producers have each generated a block on the same tip at
\* height h and both add_block calls have returned, one call succeeded and
\* the other failed validation, the height is h + 1, and the height entry
\* of h + 1 and last_hash name the block of the call that succeeded.
C11_OneProducerWins ==
    LET b1   == calls[1].block[1]
        b2   == calls[2].block[1]
        over == {"done", "failed"}
    IN  (/\ calls[1].pc \in over
         /\ calls[2].pc \in over
         /\ b1.header.prev_hash = b2.header.prev_hash) =>
            \E w \in Producers, h \in DOMAIN db.hidx :
                /\ <<db.hidx[h]>> = b1.header.prev_hash
                /\ calls[w].pc = "done"
                /\ calls[3 - w].pc = "failed"
                /\ get_height(db) = h + 1
                /\ (h + 1) \in DOMAIN db.hidx
                /\ db.hidx[h + 1] = BlockHeader_hash(calls[w].block[1].header)
                /\ db.last_hash = <<db.hidx[h + 1]>>

\* C12: a block that get_block returns at a height is returned at that
\* height after every further step: add_block (accepted or refused),
\* adjust_difficulty, add_validator and reopening leave the height entry
\* and the stored body as they were.
C12_CommittedBlocksStay ==
    [][\A h \in DOMAIN db.hidx :
          get_block(db, h).ok => get_block(db', h) = get_block(db, h)]_vars

\* a chain of ten blocks was retargeted, adjust_difficulty wrote the state
\* key, and the store was reopened with its blocks in place
C12_Witness ==
    /\ opened
    /\ Height >= DIFFICULTY_ADJUST_INTERVAL
    /\ db.state # <<>>
    /\ get_block(db, 1).ok
    /\ get_block(db, DIFFICULTY_ADJUST_INTERVAL).ok
    /\ last.op = "reopen"

\* C13: reopening the store leaves get_height() and last_hash as they were,
\* writes no block and no height entry, and the chain comes back with the
\* consensus state it had: cur_bits under PoW, cur_validators under PoS.
C13_ReopenRestores ==
    [][last'.op = "reopen" =>
          /\ get_height(db') = get_height(db)
          /\ db'.last_hash = db.last_hash
          /\ db'.blocks = db.blocks
          /\ db'.hidx = db.hidx
          /\ kind = "PoW" => cs'.cur_bits = cs.cur_bits
          /\ kind = "PoS" => cs'.cur_validators = cs.cur_validators]_vars

\* C14: on a PoW chain on which blocks come only from rounds of
\* generate_block on the tip followed by add_block, every round commits:
\* after k rounds the height is k.
C14_PoWRoundsCommit ==
    (opened /\ kind = "PoW") => get_height(db) = rounds

\* three rounds were run on a PoW chain, as in the test
C14_Witness ==
    /\ opened
    /\ kind = "PoW"
    /\ rounds = 3
    /\ last.op = "round"
    /\ last.ok
    /\ get_height(db) = 3

\* C15: on a PoS chain whose validators are the three of the test, with
\* stakes 60, 100 and 80, every round commits its block (the height is the
\* number of rounds), and the committed block's signature verifies against
\* its validator key, which cur_validators maps to the minimal stake or more.
C15_PoSTestRoundsCommit ==
    [][(/\ last'.op \in {"round", "generate_block"}
        /\ kind = "PoS"
        /\ DOMAIN cs.cur_validators = {1, 2, 3}
        /\ cs.cur_validators[1] = 60
        /\ cs.cur_validators[2] = 100
        /\ cs.cur_validators[3] = 80
        /\ DOMAIN cs.validator_keys = {1, 2, 3}) =>
          LET b   == db'.blocks[db'.hidx[get_height(db')]]
              key == b.header.data.validator_key
          IN  /\ last'.op = "round"
              /\ last'.ok
              /\ get_height(db') = get_height(db) + 1
              /\ \E msg \in {BlockHeader_hash(b.header),
                              BlockHeader_hash([b.header EXCEPT
                                                  !.data.signature = ZeroSignature]),
                              b.header.prev_hash[1]} :
                    Verify(oracle, key, msg, b.header.data.signature)
              /\ key \in DOMAIN cs.cur_validators
              /\ cs.cur_validators[key] >= MIN_STAKE_AMOUNT]_vars

\* C16: PoS generate_block, on the chain's state in a round or on a state
\* read back from the store, in which the total stake is zero, or in which
\* the validator drawn has no secret key in validator_keys, ends with an
\* error: the store and the chain's consensus state stay.
C16_PoSGenerateFails ==
    [][LET self == IF Len(last'.given) = 2 THEN last'.given[2] ELSE cs
       IN  (/\ last'.op \in {"round", "generate_block"}
            /\ kind = "PoS"
            /\ \/ TotalStake(self) = 0
               \/ last'.sel = <<>>
               \/ last'.sel[1] \notin DOMAIN self.validator_keys) =>
              (/\ last'.op = "generate_block"
               /\ ~last'.ok
               /\ db' = db
               /\ get_height(db') = get_height(db)
               /\ cs' = cs)]_vars

\* generate_block failed on a state read back from the store, for a drawn
\* validator with stake whose secret key is not held
C16_Witness ==
    /\ kind = "PoS"
    /\ last.op = "generate_block"
    /\ ~last.ok
    /\ Len(last.given) = 2
    /\ last.sel # <<>>
    /\ last.sel[1] \in DOMAIN last.given[2].cur_validators
    /\ last.sel[1] \notin DOMAIN last.given[2].validator_keys
    /\ TotalStake(last.given[2]) > 0

\* C17: adjust_difficulty called at height 0, or at a height that is not a
\* multiple of DIFFICULTY_ADJUST_INTERVAL, returns cur_bits and leaves the
\* chain's cur_bits and every key of the store as they were.
C17_NoRetargetOffInterval ==
    [][(/\ last'.op = "adjust_difficulty"
        /\ \/ get_height(db) = 0
           \/ get_height(db) % DIFFICULTY_ADJUST_INTERVAL # 0) =>
          (/\ last'.ok
           /\ last'.ret = cs.cur_bits
           /\ cs' = cs
           /\ db' = db)]_vars

\* adjust_difficulty was called one block past the interval, on a chain
\* that a call at the interval had retargeted
C17_Witness ==
    /\ last.op = "adjust_difficulty"
    /\ last.ok
    /\ Height = DIFFICULTY_ADJUST_INTERVAL + 1
    /\ cs.cur_bits # DEFAULT_DIFFICULTY
    /\ last.ret = cs.cur_bits

\* C18: when ten blocks have been appended on the genesis with timestamps
\* less than TARGET_TIME_SPAN apart, the chain's cur_bits encodes a target
\* below the target of the blocks of the interval, and at least a quarter
\* of it.
C18_FastBlocksRaiseDifficulty ==
    (/\ opened
     /\ kind = "PoW"
     /\ Height = DIFFICULTY_ADJUST_INTERVAL
     /\ last.op \in {"round", "adjust_difficulty"}
     /\ BlockAt(Height).header.timestamp - BlockAt(0).header.timestamp
           < TARGET_TIME_SPAN) =>
        LET prev_target == bits_to_target(BlockAt(0).header.data.bits)
            new_target  == bits_to_target(cs.cur_bits)
        IN  /\ BigLeq(new_target, prev_target)
            /\ new_target # prev_target
            /\ BigLeq(BigDivSmall(prev_target, 4), new_target)

\* C19: on a PoW chain a block that add_block commits carries the bits the
\* retargeting algorithm gives for its height: a block with other bits is
\* refused, whatever its hash.
C19_UnexpectedBitsRejected ==
    [][(last'.op = "add_block" /\ kind = "PoW" /\ last'.ok) =>
          db'.blocks[db'.hidx[get_height(db')]].header.data.bits
             = adjust_difficulty(db, cs, TRUE).bits]_vars

\* C20: a positive target that is a coefficient below 2^23 followed by zero
\* bytes comes back from target_to_bits and bits_to_target as it was; any
\* other positive target comes back with its leading bytes as they were
\* and its low bytes zero, so not above the target.
C20_CodecRoundTrip ==
    LET t == codec.target
        RECURSIVE StripZeros(_)
        StripZeros(a) ==
            IF Len(a) > 0 /\ a[Len(a)] = 0
            THEN StripZeros(SubSeq(a, 1, Len(a) - 1)) ELSE a
        coeff == StripZeros(t)
        representable ==
            \/ Len(coeff) < 3
            \/ Len(coeff) = 3 /\ coeff[1] < 128
    IN  codec.pc \in {"decoded", "panicked"} =>
            /\ codec.pc = "decoded"
            /\ IF representable THEN codec.back = t
               ELSE /\ Len(codec.back) = Len(t)
                    /\ BigLeq(codec.back, t)
                    /\ \E k \in 1..Len(t) :
                          /\ SubSeq(codec.back, 1, k) = SubSeq(t, 1, k)
                          /\ \A i \in (k + 1)..Len(t) : codec.back[i] = 0

\* C21: of two positive targets, the first not above the second, the first
\* comes back from target_to_bits and bits_to_target not above what the
\* second comes back as.
C21_CodecKeepsOrder ==
    (codec[1].pc \in {"decoded", "panicked"} /\ codec[2].pc \in {"decoded", "panicked"}) =>
        /\ codec[1].pc = "decoded"
        /\ codec[2].pc = "decoded"
        /\ BigLeq(codec[1].back, codec[2].back)

\* the PoS states that differ from the state in memory in validator_keys only
KeyVariants ==
    {[cs EXCEPT !.validator_keys = ks] :
        ks \in {<<>>} \cup {[x \in DOMAIN cs.validator_keys |-> k] : k \in Keys}}

\* C22: the bytes put_state writes for a PoS state are the bytes of every
\* state that differs from it in validator_keys only, and a state
\* get_state decodes from the store (there is one exactly when the state
\* key has been written) has the stored stakes and an empty validator_keys.
C22_SecretKeysNotPersisted ==
    [][(kind = "PoS") =>
          /\ (last'.op = "put_state") =>
                \A other \in KeyVariants :
                    db'.state = <<SerializeState("PoS", other)>>
          /\ (last'.op = "get_state") =>
                /\ last'.ok <=> (db.state # <<>>)
                /\ last'.ok =>
                      /\ DOMAIN last'.given[1].validator_keys = {}
                      /\ last'.given[1].cur_validators = db.state[1].cur_validators]_vars
\* a PoS state holding a secret key was written and has just been read back
C22_Witness ==
    /\ kind = "PoS"
    /\ last.op = "get_state"
    /\ last.ok
    /\ DOMAIN cs.validator_keys # {}
    /\ DOMAIN last.given[1].cur_validators = DOMAIN cs.validator_keys

\* C23: after every add_validator and every retarget that changes the
\* consensus state of an open chain, the state key of the store holds the
\* encoding of the consensus state in memory: the stored state never lags.
C23_StoredStateCurrent ==
    [][(opened /\ cs' # cs /\ last'.op \in {"add_validator", "adjust_difficulty"}) =>
          db'.state = <<SerializeState(kind, cs')>>]_vars

\* C24: generate_block of no transactions returns an error and leaves the
\* store alone, add_block of a block without transactions rejects it and
\* leaves the store alone, and every block of the store has a transaction.
C24_NoEmptyBlocks ==
    [][/\ (last'.op \in {"round", "generate_block"} /\ last'.given = <<(<<>>)>>) =>
            (last'.op = "generate_block" /\ ~last'.ok /\ db' = db)
       /\ (last'.op = "add_block" /\ Len(last'.given[1].txs) = 0) =>
            (~last'.ok /\ db' = db)
       /\ \A h \in DOMAIN db'.blocks : Len(db'.blocks[h].txs) > 0]_vars
\* a block without transactions, built on a tip above the genesis, has just
\* been handed to add_block
C24_Witness ==
    /\ last.op = "add_block"
    /\ last.given # <<>>
    /\ Len(last.given[1].txs) = 0
    /\ last.given[1].header.prev_hash = db.last_hash
    /\ Height >= 1

\* C25: whenever a chain is open, get_last_block() returns a block, the one
\* get_block(get_height()) returns, which is the block stored under
\* last_hash and whose header hashes to last_hash; at height 0 it is the
\* genesis block.
C25_LastBlockIsTip ==
    opened =>
        LET tip == get_last_block(db)
        IN  /\ tip.ok
            /\ tip = get_block(db, get_height(db))
            /\ db.last_hash # <<>>
            /\ db.last_hash[1] \in DOMAIN db.blocks
            /\ tip.v[1] = db.blocks[db.last_hash[1]]
            /\ <<BlockHeader_hash(tip.v[1].header)>> = db.last_hash
            /\ (get_height(db) = 0 => tip.v[1] = Block_genesis(kind))
\* a block has been committed above the genesis and add_block has then
\* rejected a block naming the tip
C25_Witness ==
    /\ opened
    /\ Height >= 1
    /\ get_last_block(db).v[1] # Block_genesis(kind)
    /\ last.op = "add_block"
    /\ ~last.ok
    /\ last.prev_match

\* C26: the block a PoW round generated and committed carries the state's
\* cur_bits, hashes to at most the target of those bits, and passes the
\* PoW validate of the state.
C26_GeneratedBlockIsMined ==
    [][(/\ kind = "PoW"
        /\ last'.op = "validate"
        /\ get_height(db) >= 1
        /\ last'.given[1] = get_last_block(db).v[1]) =>
          LET block == last'.given[1]
          IN  /\ block.header.data.bits = cs.cur_bits
              /\ PoWData_is_valid(block.header.data,
                                  DigestBytes(oracle', BlockHeader_hash(block.header)),
                                  FALSE).v
              /\ last'.ok]_vars

\* C27: PoW validate of a block returns true exactly when the block's
\* header hash is at most the target decoded from the block's own bits,
\* whatever the state's cur_bits.
C27_ValidateUsesBlockBits ==
    [][(kind = "PoW" /\ last'.op = "validate") =>
          LET block == last'.given[1]
          IN  last'.ok <=>
                 PoWData_is_valid(block.header.data,
                                  DigestBytes(oracle', BlockHeader_hash(block.header)),
                                  FALSE).v]_vars

\* C28: the signature of the block a PoS round generates is the selected
\* validator's over the presign hash of the block's own header, and PoS
\* validate of the block returns true when that validator's stake is at
\* least the minimal stake.
C28_GeneratedBlockValidates ==
    [][(kind = "PoS" /\ last'.op = "round") =>
          LET block == get_last_block(db').v[1]
              key   == last'.sel[1]
          IN  /\ block.header.data.validator_key = key
              /\ block.header.data.signature =
                     Sign(cs.validator_keys[key], PresignHash(block.header))
              /\ (cs.cur_validators[key] >= MIN_STAKE_AMOUNT) =>
                     PoS_validate(oracle', cs, block)]_vars

\* C29: PoS validate of a block returns true exactly when the signature
\* verifies against the block's validator key over the presign hash of the
\* header and cur_validators holds that key with at least the minimal
\* stake.
C29_ValidateChecksSignatureAndStake ==
    [][(kind = "PoS" /\ last'.op = "validate") =>
          LET block == last'.given[1]
              key   == block.header.data.validator_key
          IN  last'.ok <=>
                 /\ Verify(oracle', key, PresignHash(block.header),
                           block.header.data.signature)
                 /\ key \in DOMAIN cs.cur_validators
                 /\ cs.cur_validators[key] >= MIN_STAKE_AMOUNT]_vars

\* C30: with a positive total stake, select_validator returns a validator
\* for the draw it made, one of positive stake, and over the iteration
\* order of the call each validator is returned for exactly as many of the
\* draws 0..total-1 as its stake, none of which ends the walk without a
\* result.
C30_SelectionProportional ==
    [][(last'.op = "select_validator" /\ TotalStake(cs) > 0) =>
          LET stakes == cs.cur_validators
              order  == last'.given[1]
              draws  == RandomRange(TotalStake(cs))
          IN  /\ last'.sel # <<>>
              /\ last'.sel = SelectWalk(stakes, order, last'.ret)
              /\ stakes[last'.sel[1]] > 0
              /\ \A r \in draws : SelectWalk(stakes, order, r) # <<>>
              /\ \A v \in DOMAIN stakes :
                    Cardinality({r \in draws : SelectWalk(stakes, order, r) = <<v>>})
                        = stakes[v]]_vars
\* three validators, the first of the iteration order without stake, and
\* the largest draw, which returns the last of the order
C30_Witness ==
    /\ last.op = "select_validator"
    /\ last.given # <<>>
    /\ Len(last.given[1]) = 3
    /\ cs.cur_validators[last.given[1][1]] = 0
    /\ TotalStake(cs) > MaxStake
    /\ last.ret = TotalStake(cs) - 1
    /\ last.sel = <<last.given[1][3]>>

\* C31: adjust_difficulty at a height that is a positive multiple of the
\* interval takes prev_target from the bits of the block one interval back,
\* scales it by TARGET_TIME_SPAN over the span of at least 1, clamps it into
\* [prev_target / 4, prev_target * 4] and sets cur_bits to target_to_bits of
\* the result; the target decoded from the new cur_bits lies in that range.
C31_RetargetWithinClamp ==
    [][(/\ last'.op = "adjust_difficulty"
        /\ get_height(db) # 0
        /\ get_height(db) % DIFFICULTY_ADJUST_INTERVAL = 0) =>
          LET first       == get_block(db, get_height(db) - DIFFICULTY_ADJUST_INTERVAL).v[1]
              lastb       == get_last_block(db).v[1]
              span        == lastb.header.timestamp - first.header.timestamp
              actual_span == IF span < 1 THEN 1 ELSE span
              prev_target == bits_to_target(first.header.data.bits)
              low         == BigDivSmall(prev_target, 4)
              high        == BigMulSmall(prev_target, 4)
              new_target  == BigClamp(BigDivSmall(BigMulSmall(prev_target, TARGET_TIME_SPAN),
                                                  actual_span), low, high)
          IN  /\ last'.ok
              /\ cs'.cur_bits = target_to_bits(new_target)
              /\ last'.ret = cs'.cur_bits
              /\ ~BitsToTargetPanics(cs'.cur_bits, TRUE)
              /\ BigLeq(low, bits_to_target(cs'.cur_bits))
              /\ BigLeq(bits_to_target(cs'.cur_bits), high)]_vars

\* C32: on a PoW chain the append that brings the tip to a positive multiple
\* of the interval writes the retargeted state with the tip, and the stored
\* state of an open chain changes only in a step that moves the tip: the
\* store never shows the new tip with the old cur_bits, nor the new
\* cur_bits with the old tip.
C32_RetargetInAppendBatch ==
    [][(opened /\ kind = "PoW") =>
          /\ (/\ get_height(db') # get_height(db)
              /\ get_height(db') % DIFFICULTY_ADJUST_INTERVAL = 0) =>
                db'.state = <<[cur_bits |-> adjust_difficulty(db', cs, TRUE).bits]>>
          /\ (db'.state # db.state) => (db'.last_hash # db.last_hash)]_vars

\* C33: bits_to_target of bits with exponent E >= 3 and coefficient C < 2^23
\* (the low 24 bits) returns, without panicking, C * 2^(8 * (E - 3)): the
\* digits of C followed by E - 3 zero bytes, or zero when C is 0.
C33_DecodeExact ==
    LET E == codec.bits \div 16777216
        C == codec.bits % 16777216
    IN  (codec.pc \in {"decoded", "panicked"} /\ E >= 3 /\ C < 8388608) =>
            /\ codec.pc = "decoded"
            /\ (C = 0) => (codec.back = <<>>)
            /\ (C # 0) =>
                  /\ Len(codec.back) = Len(NatDigits(C)) + (E - 3)
                  /\ SubSeq(codec.back, 1, Len(NatDigits(C))) = NatDigits(C)
                  /\ \A i \in (Len(NatDigits(C)) + 1)..Len(codec.back) :
                        codec.back[i] = 0

\* the header has the start header's prev_hash, merkle_root and bits
SearchFrame ==
    /\ search.bh.prev_hash = search.start.prev_hash
    /\ search.bh.merkle_root = search.start.merkle_root
    /\ search.bh.data.bits = search.start.data.bits

\* the header returned hashes to at most the target, carries the nonce
\* reached, and with every smaller nonce it hashes above the target
SearchFirstHit ==
    (search.pc = "returned") =>
        /\ PoWData_is_valid(search.start.data,
                            DigestBytes(oracle, BlockHeader_hash(search.bh)),
                            search.overflow_checks).v
        /\ search.bh.data.nonce = search.nonce
        /\ (search.nonce < RETRY_INTERVAL) =>
              \A n \in 0..(search.nonce - 1) :
                  ~PoWData_is_valid(search.start.data,
                        DigestBytes(oracle,
                            BlockHeader_hash([search.bh EXCEPT !.data.nonce = n])),
                        search.overflow_checks).v

\* C34: the nonce search tries the nonces from 0 upwards and returns the
\* first header hashing to at most the target; the header keeps the
\* prev_hash, merkle_root and bits it started with, its timestamp changes
\* only when the count of attempts reaches a multiple of 1,000,000, and the
\* timestamp is never below the one it started with.
C34_SearchFrame ==
    (search.pc # "none") =>
        /\ SearchFrame
        /\ SearchFirstHit
        /\ (search.nonce < RETRY_INTERVAL) =>
              (search.bh.timestamp = search.start.timestamp)
        /\ search.bh.timestamp >= search.start.timestamp

\* C34 as amended: as C34, the timestamp being the one the header started
\* with until the first refresh, and after each refresh the reading of the
\* clock at that refresh, whether or not that is below the start.
C34_SearchFrameAmended ==
    [][(search.pc = "running" /\ search' # search) =>
          /\ SearchFrame'
          /\ SearchFirstHit'
          /\ search'.nonce >= search.nonce
          /\ search'.bh.timestamp =
                IF search'.pc = "running" /\ search'.nonce % RETRY_INTERVAL = 0
                THEN now ELSE search.bh.timestamp
          /\ (search'.nonce < RETRY_INTERVAL) =>
                (search'.bh.timestamp = search.start.timestamp)]_vars
\* the search has gone past a refresh on a header that started with the
\* tip's timestamp, and the clock had advanced by then
C34_Witness ==
    /\ search.pc = "running"
    /\ search.nonce > RETRY_INTERVAL
    /\ search.start.timestamp = GENESIS_TIMESTAMP
    /\ search.bh.timestamp > search.start.timestamp
    /\ search.bh.data.nonce = search.nonce - 1

\* C35: add_block of a block that names the tip, carries the root of its
\* transactions and has the tip's timestamp commits it: the chain is one
\* higher and its new tip has the timestamp of the block below it.
C35_EqualTimestampAccepted ==
    [][(/\ last'.op = "add_block"
        /\ last'.prev_match
        /\ last'.given[1].merkle_valid
        /\ last'.given[1].ts_equal) =>
          /\ last'.ok
          /\ get_height(db') = get_height(db) + 1
          /\ db'.last_hash # db.last_hash
          /\ get_last_block(db').v[1].header.timestamp
                = get_last_block(db).v[1].header.timestamp]_vars
\* two blocks with the timestamp of the genesis have been committed
C35_Witness ==
    /\ last.op = "add_block"
    /\ last.ok
    /\ last.given # <<>>
    /\ last.given[1].ts_equal
    /\ Height >= 2
    /\ BlockAt(Height).header.timestamp = BlockAt(0).header.timestamp

\* C36: under a configured interval I >= 1, adjust_difficulty at a height
\* that is a positive multiple of I succeeds and reads its first block at
\* height - I, which is not below zero.
C36_FirstBlockOneIntervalBack ==
    [][(/\ last'.op = "adjust_difficulty"
        /\ get_height(db) # 0
        /\ get_height(db) % cs.difficulty_adjust_interval = 0) =>
          /\ last'.ok
          /\ get_height(db) - cs.difficulty_adjust_interval >= 0
          /\ last'.given = <<get_height(db) - cs.difficulty_adjust_interval>>]_vars

\* C37: two headers that differ in prev_hash or in merkle_root, whatever
\* the lengths of those fields, are never fed to the hasher as the same
\* byte string, and so never get the same header hash by construction.
C37_HeaderBytesDetermineFields ==
    (/\ Len(codec) = 2
     /\ codec[1].pc = "hashed"
     /\ codec[2].pc = "hashed"
     /\ \/ codec[1].header.prev_hash # codec[2].header.prev_hash
        \/ codec[1].header.merkle_root # codec[2].header.merkle_root) =>
       /\ codec[1].fed # codec[2].fed
       /\ codec[1].hash # codec[2].hash

\* C38: for every target a retarget can produce, zero and targets whose
\* leading three bytes are 0x7fffff or above included, target_to_bits
\* yields bits on which bits_to_target does not fail: the exponent is at
\* least 3, the coefficient passes the assertion, and the decode does not
\* panic.
C38_ProducedBitsDecode ==
    (codec.pc \in {"encoded", "decoded", "panicked"}) =>
       /\ BitsExp(codec.bits) >= 3
       /\ BitsCoeff(codec.bits) < COEFF_MASK
       /\ codec.pc # "panicked"

=============================================================================
